---- MODULE Spec2Model ----
(***************************************************************************)
(* A model of the lisk-dex module (src/index.js): the pending-transfer    *)
(* registry and the signature coordinator, the block interleaver with     *)
(* fork recovery, and the per-block pipeline.                              *)
(*                                                                         *)
(* Asynchronous JavaScript is modelled at its suspension points: code      *)
(* between two awaits is one atomic step; a promise nobody awaits (an      *)
(* async forEach callback, a delayed task) is a pending task that a later  *)
(* step completes.                                                         *)
(***************************************************************************)
EXTENDS Integers, Sequences, FiniteSets, TLC

VARIABLES
  pendingTransfers,        \* this.pendingTransfers: a Map, as the sequence of its values in iteration order
  requiredSignatureCount,  \* multisigWalletInfo[chain].requiredSignatureCount, loaded once in load()
  timers,                  \* delayed tasks waiting in wait(duration)
  posted,                  \* the calls of _postTransactionToChain made so far
  emitted,                 \* the signatures the last step gave to _broadcastSignatureToSubnet
  nextObj,                 \* identity of the next transaction object prepareTransaction creates
  latestChainHeights,      \* height of the last block of each chain given to processBlock
  lastResult,              \* what _processSignature returned, when the last step was the network:event handler
  lastExpired              \* how many entries the last step's expireMultisigTransactions removed

\* The interleaver and the pipeline.
VARIABLES
  passiveMode,             \* this.passiveMode
  orderBook,               \* the open orders of this.tradeEngine, in the order of their arrival
  lastSnapshot,            \* this.lastSnapshot: <<>> for null, else <<snapshot>>
  dividendQueue,           \* dividendProcessingStream: the jobs written and not yet consumed
  lookups,                 \* expiry callbacks waiting for _getBlockAtHeight
  unhandled,               \* rejected promises of the last step that nothing handles
  dbHeight,                \* max(height) of the blocks table of each chain
  lastSeenChainHeight,     \* of the blocks:change handler of each chain
  progressingChains,       \* of the blocks:change handlers
  isForked,                \* this.isForked
  isInForkRecovery,        \* of load()
  lastProcessedTimestamp,  \* of load(): Unset for null and undefined
  driver,                  \* where startProcessingBlockchains stands, with the locals of processBlockchains
  lastStarted,             \* the block last given to processBlock since the last recovery
  completed,               \* the block whose processBlock returned in the last step
  processed,               \* the blocks whose processBlock has returned, as <<chainSymbol, height>>
  recovered,               \* a recovery has cleared the registry and no block was started since
  faults,                  \* how many failed queries and fork events the run has had
  replicas,                \* two pipelines fed the same blocks
  intake                   \* the input given to a part of the program that runs on its own,
                           \* followed by what it returned

interleaverVars ==
  <<passiveMode, orderBook, lastSnapshot, dividendQueue, lookups, unhandled,
    dbHeight, lastSeenChainHeight, progressingChains, isForked,
    isInForkRecovery, lastProcessedTimestamp, driver, lastStarted,
    completed, processed, recovered, faults>>

nodeVars == <<interleaverVars, replicas, intake>>

registryVars == <<pendingTransfers, requiredSignatureCount, timers, posted, emitted,
                  nextObj, latestChainHeights, lastResult, lastExpired>>

vars == <<registryVars, nodeVars>>

----------------------------------------------------------------------------
(* Bounds of the model. *)

MaxAuthorings == 2          \* calls of execMultisigTransaction in a run of Spec
MaxRegistryAuthorings == 3  \* calls of execMultisigTransaction in a run of SpecRegistry
MaxHeight == 1              \* blocks of one chain given to processBlock

----------------------------------------------------------------------------
(* Configuration. *)

Null == "null"

\* The height of a transaction record that has none (undefined in the code).
NoHeight == 0 - 1

\* An option the configuration leaves out (undefined in the code).
Unset == 0 - 1

baseChainSymbol == "A"
quoteChainSymbol == "B"
chainSymbols == {baseChainSymbol, quoteChainSymbol}

DEFAULT_SIGNATURE_BROADCAST_DELAY == 15000
DEFAULT_TRANSACTION_SUBMIT_DELAY == 5000

\* The granularity of the model's clock, in ms. Time is kept relative to the
\* clock: an entry of the registry holds its age, Date.now() - timestamp, and a
\* delayed task the time it has waited. Both stop counting once they reach the
\* threshold the code compares them with.
ClockStep == 5000

\* this.options.*: the broadcast delay is configured, the submit delay is left
\* unset, so that its default applies.
options_signatureBroadcastDelay == 5000
options_transactionSubmitDelay == Unset
options_multisigExpiry == 10000

\* this.options.chains[chain].rebroadcastAfterHeight / rebroadcastUntilHeight
rebroadcastAfterHeight(chain) == 0
rebroadcastUntilHeight(chain) == 3

\* Public keys. NodeKey is the key of chainOptions.passphrase; MemberKeys are the
\* rows of mem_accounts2multisignatures for the wallet (the same on both chains).
NodeKey == "k1"
MemberKeys == {"k1", "k2", "k3"}
PublicKeys == MemberKeys \cup {"kx"}
members(chain) == MemberKeys

\* The values multimin takes in the model, per chain.
RequiredCountChoices ==
  {[c \in chainSymbols |-> IF c = baseChainSymbol THEN 1 ELSE 2],
   [c \in chainSymbols |-> IF c = baseChainSymbol THEN 2 ELSE 3]}

\* A signature is a hex string: the signer, what was signed, and the spelling of
\* the hex digits (signData writes lower case).
Encodings == {"lc"}

----------------------------------------------------------------------------
(* Library functions. *)

\* getAddressFromPublicKey
getAddressFromPublicKey(publicKey) == <<"address", publicKey>>

\* liskTransactions.utils.prepareTransaction: the id is a hash of the content
\* (the sender is the shared wallet of targetChain); height is not part of it.
\* A message is kept as the tuple of its fields.
TransactionId(targetChain, transactionData, message) ==
  <<targetChain, transactionData.amount, transactionData.recipientId,
    transactionData.timestamp, message>>

\* liskCryptography.signData(hash, passphrase), as a lower-case hex string
signData(txnId, publicKey) == [key |-> publicKey, txn |-> txnId, enc |-> "lc"]

\* liskCryptography.verifyData(hash, signature, publicKey)
verifyData(txnId, signature, publicKey) ==
  signature.key = publicKey /\ signature.txn = txnId

----------------------------------------------------------------------------
(* The Map this.pendingTransfers. *)

MapIndex(map, id) ==
  IF \E i \in DOMAIN map : map[i].transaction.id = id
  THEN CHOOSE i \in DOMAIN map : map[i].transaction.id = id
  ELSE 0

MapHas(map, id) == MapIndex(map, id) # 0

MapGet(map, id) == map[MapIndex(map, id)]

MapDelete(map, id) == SelectSeq(map, LAMBDA e : e.transaction.id # id)

\* Map.prototype.set: a new key goes to the end, an existing key keeps its place.
MapSet(map, id, value) ==
  IF MapHas(map, id) THEN [map EXCEPT ![MapIndex(map, id)] = value]
  ELSE Append(map, value)

----------------------------------------------------------------------------
(* The signature coordinator: pure parts. *)

\* _getSignatureQuota (requiredSignatureCount is read from multisigWalletInfo)
getSignatureQuota(required, targetChain, transaction) ==
  Len(transaction.signatures) - required[targetChain]

\* _verifySignature, were the key not looked up among the members of the wallet.
verifySignatureOfAnyKey(targetChain, publicKey, transaction, signatureToVerify) ==
  verifyData(transaction.id, signatureToVerify, publicKey)

\* _verifySignature: the hash covers the transaction without its signatures.
verifySignature(targetChain, publicKey, transaction, signatureToVerify) ==
  IF publicKey \notin members(targetChain) THEN FALSE
  ELSE verifyData(transaction.id, signatureToVerify, publicKey)

RejectedResult(targetChain, transaction, signatureData) ==
  [isAccepted |-> FALSE, signatureQuota |-> Null, targetChain |-> targetChain,
   transaction |-> transaction, signature |-> signatureData.signature,
   publicKey |-> signatureData.publicKey]

\* Whether _processSignature takes the signature as new: the lookup in
\* processedSignatureSet compares the strings.
IsDuplicateSignatureNoCheck(processedSignatureSet, signature) == FALSE

IsDuplicateSignature(processedSignatureSet, signature) ==
  signature \in processedSignatureSet

\* _processSignature: the registry afterwards and the result returned.
processSignature(map, required, signatureData) ==
  IF ~MapHas(map, signatureData.transactionId)
  THEN [map |-> map, result |-> RejectedResult(Null, Null, signatureData)]
  ELSE
    LET transactionData == MapGet(map, signatureData.transactionId)
        transaction == transactionData.transaction
        targetChain == transactionData.targetChain
        signature == signatureData.signature
        publicKey == signatureData.publicKey
    IN IF IsDuplicateSignature(transactionData.processedSignatureSet, signature)
       THEN [map |-> map,
             result |-> RejectedResult(targetChain, transaction, signatureData)]
       ELSE IF ~verifySignature(targetChain, publicKey, transaction, signature)
       THEN [map |-> map,
             result |-> RejectedResult(targetChain, transaction, signatureData)]
       ELSE
         LET newTransaction ==
               [transaction EXCEPT !.signatures = Append(@, signature)]
             signatureQuota == getSignatureQuota(required, targetChain, newTransaction)
             newData ==
               [transactionData EXCEPT
                  !.transaction = newTransaction,
                  !.processedSignatureSet = @ \cup {signature},
                  !.contributors = @ \cup {getAddressFromPublicKey(publicKey)},
                  !.isReady = IF signatureQuota >= 0 THEN TRUE ELSE @]
         IN [map |-> MapSet(map, transaction.id, newData),
             result |-> [isAccepted |-> TRUE, signatureQuota |-> signatureQuota,
                         targetChain |-> targetChain, transaction |-> newTransaction,
                         signature |-> signature, publicKey |-> publicKey]]

\* expireMultisigTransactions, were the scan to end after its first delete.
expireFirstMultisigTransaction(map) ==
  IF map # <<>> /\ map[1].age >= options_multisigExpiry THEN Tail(map) ELSE map

\* expireMultisigTransactions: the scan stops at the first entry that is young.
expireMultisigTransactions(map) ==
  LET young == {i \in DOMAIN map : map[i].age < options_multisigExpiry}
  IN IF young = {} THEN <<>>
     ELSE LET first == CHOOSE i \in young : \A j \in young : i <= j
          IN SubSeq(map, first, Len(map))

\* execMultisigTransaction without the delete that precedes the set.
execMultisigTransactionNoDelete(map, targetChain, transactionData, message, obj) ==
  LET id == TransactionId(targetChain, transactionData, message)
      multisigTxnSignature == signData(id, NodeKey)
  IN MapSet(map, id,
            [transaction |-> [id |-> id, obj |-> obj,
                              signatures |-> <<multisigTxnSignature>>],
             targetChain |-> targetChain,
             processedSignatureSet |-> {multisigTxnSignature},
             contributors |-> {getAddressFromPublicKey(NodeKey)},
             publicKey |-> NodeKey,
             height |-> transactionData.height,
             age |-> 0,
             isReady |-> FALSE])

\* execMultisigTransaction: the registry afterwards. obj is the identity of the
\* transaction object created; isReady is not set here (it is undefined).
execMultisigTransaction(map, targetChain, transactionData, message, obj) ==
  LET id == TransactionId(targetChain, transactionData, message)
      map1 == IF MapHas(map, id) THEN MapDelete(map, id) ELSE map
  IN execMultisigTransactionNoDelete(map1, targetChain, transactionData, message, obj)

\* The delayed broadcast execMultisigTransaction schedules.
sigBroadcastDelay ==
  IF options_signatureBroadcastDelay = Unset THEN DEFAULT_SIGNATURE_BROADCAST_DELAY
  ELSE options_signatureBroadcastDelay

txnSubmitDelay ==
  IF options_transactionSubmitDelay = Unset THEN DEFAULT_TRANSACTION_SUBMIT_DELAY
  ELSE options_transactionSubmitDelay

BroadcastTimer(targetChain, transactionData, message) ==
  LET id == TransactionId(targetChain, transactionData, message)
  IN [kind |-> "broadcast", transactionId |-> id, signature |-> signData(id, NodeKey),
      publicKey |-> NodeKey, delay |-> sigBroadcastDelay, waited |-> 0]

\* The window of the rebroadcast sweep, were its ends part of it.
InRebroadcastWindowClosed(transfer, chainSymbol, chainHeight) ==
  /\ transfer.targetChain = chainSymbol
  /\ transfer.height # NoHeight
  /\ chainHeight - transfer.height >= rebroadcastAfterHeight(chainSymbol)
  /\ chainHeight - transfer.height <= rebroadcastUntilHeight(chainSymbol)
  /\ Len(transfer.transaction.signatures) # 0

\* The rebroadcast sweep of processBlock: whether a transfer is in the window.
\* A transfer whose height is undefined gives NaN, and every comparison fails.
InRebroadcastWindow(transfer, chainSymbol, chainHeight) ==
  /\ transfer.targetChain = chainSymbol
  /\ transfer.height # NoHeight
  /\ chainHeight - transfer.height > rebroadcastAfterHeight(chainSymbol)
  /\ chainHeight - transfer.height < rebroadcastUntilHeight(chainSymbol)
  /\ Len(transfer.transaction.signatures) # 0

\* The transfers the sweep re-posts, in iteration order, and the signatures it
\* broadcasts again.
SweepPosts(map, chainSymbol, chainHeight) ==
  SelectSeq(map, LAMBDA t : InRebroadcastWindow(t, chainSymbol, chainHeight) /\ t.isReady)

SweepBroadcasts(map, chainSymbol, chainHeight) ==
  {[transactionId |-> map[i].transaction.id,
    signature |-> map[i].transaction.signatures[1],
    publicKey |-> map[i].publicKey] :
     i \in {j \in DOMAIN map :
              InRebroadcastWindow(map[j], chainSymbol, chainHeight) /\ ~map[j].isReady}}

\* A call of _postTransactionToChain, by the network:event handler or by the
\* rebroadcast sweep: nth tells the caller's first call for this transaction
\* object (1) from its later ones (2).
PostedCount(log, obj, via) == Cardinality({p \in log : p.obj = obj /\ p.via = via})

PostRecord(log, transaction, via) ==
  [id |-> transaction.id, obj |-> transaction.obj, via |-> via,
   nth |-> IF PostedCount(log, transaction.obj, via) = 0 THEN 1 ELSE 2]

SweepPostRecords(log, transfers) ==
  {PostRecord(log, transfers[i].transaction, "sweep") : i \in DOMAIN transfers}

----------------------------------------------------------------------------
(* Inputs of the signature coordinator. *)

\* The transactions the pipeline authors in this part of the model, each with
\* the height of its target chain at the time: the payout of a trade, and the
\* refund of the rest of a market order.
PayoutMessage == <<"t1", "A", "o1", "Orders taken">>
RefundMessage == <<"r4", "o1", "Unmatched market order part">>

AuthoredData(height) ==
  [amount |-> 100, recipientId |-> "w1", timestamp |-> 7, height |-> height]

PayoutId == TransactionId(quoteChainSymbol, AuthoredData(0), PayoutMessage)
UnknownId == TransactionId(baseChainSymbol, AuthoredData(0), <<"r1", "x", "Invalid order">>)

\* payload.data.data of a network:event named lisk_dex:signature, from any peer:
\* a signature of the named transaction by the named key; a signature by
\* another key than the one named; a signature of another transaction; a
\* transaction id the node does not know.
SignatureDataSet ==
  {[transactionId |-> PayoutId, signature |-> [key |-> k, txn |-> PayoutId, enc |-> e],
    publicKey |-> k] : k \in PublicKeys, e \in Encodings}
  \cup
  {[transactionId |-> PayoutId,
    signature |-> [key |-> "k2", txn |-> PayoutId, enc |-> "lc"], publicKey |-> "k3"],
   [transactionId |-> PayoutId,
    signature |-> [key |-> "k2", txn |-> UnknownId, enc |-> "lc"], publicKey |-> "k2"],
   [transactionId |-> UnknownId,
    signature |-> [key |-> "k2", txn |-> UnknownId, enc |-> "lc"], publicKey |-> "k2"]}

NoResult == [ran |-> FALSE, isAccepted |-> FALSE, signatureQuota |-> 0]

\* What the model keeps of the result of _processSignature (signatureQuota is
\* undefined in a rejection).
ResultSummary(result) ==
  [ran |-> TRUE, isAccepted |-> result.isAccepted,
   signatureQuota |-> IF result.isAccepted THEN result.signatureQuota ELSE 0]

----------------------------------------------------------------------------
(* Steps every part of the model shares. *)

Min(a, b) == IF a <= b THEN a ELSE b

\* The registry and the delayed tasks after ms of wall-clock time.
AgedTransfers(map, ms) ==
  [i \in DOMAIN map |->
     [map[i] EXCEPT !.age = Min(@ + ms, options_multisigExpiry)]]

AgedTimers(set, ms) ==
  {[t EXCEPT !.waited = Min(@ + ms, t.delay)] : t \in set}

\* The registry after the authorings of one block, in their order; the
\* transaction objects are numbered from obj.
RECURSIVE AuthorAll(_, _, _, _)
AuthorAll(map, authored, heights, obj) ==
  IF authored = <<>> THEN map
  ELSE AuthorAll(
         execMultisigTransaction(map, Head(authored).targetChain,
                                 AuthoredData(heights[Head(authored).targetChain]),
                                 Head(authored).message, obj),
         Tail(authored), heights, obj + 1)

BroadcastTimers(authored) ==
  {BroadcastTimer(authored[i].targetChain, AuthoredData(0), authored[i].message) :
     i \in DOMAIN authored}

----------------------------------------------------------------------------
(* The signature coordinator: steps. *)

\* The test of the network:event handler, were it signatureQuota >= 0.
HandlerSubmitsAtOrAbove(signatureQuota) == signatureQuota >= 0

\* The test of the network:event handler: result.signatureQuota === 0.
HandlerSubmits(signatureQuota) == signatureQuota = 0

\* The delay of the handler's submission, were there no wait.
HandlerSubmitDelayNone == txnSubmitDelay - txnSubmitDelay

\* await wait(txnSubmitDelay)
HandlerSubmitDelay == txnSubmitDelay

\* channel.subscribe('network:event'): one signature from a peer. An accepted
\* signature is broadcast at once; at quota 0 the submission is scheduled.
NetworkEvent(signatureData) ==
  LET done == processSignature(pendingTransfers, requiredSignatureCount, signatureData)
      result == done.result
  IN /\ pendingTransfers' = done.map
     /\ lastResult' = ResultSummary(result)
     /\ emitted' =
          IF result.isAccepted
          THEN {[transactionId |-> result.transaction.id,
                 signature |-> result.signature, publicKey |-> result.publicKey]}
          ELSE {}
     /\ timers' =
          IF result.isAccepted /\ HandlerSubmits(result.signatureQuota)
          THEN timers \cup {[kind |-> "submit", targetChain |-> result.targetChain,
                             transaction |-> [id |-> result.transaction.id,
                                              obj |-> result.transaction.obj],
                             delay |-> HandlerSubmitDelay, waited |-> 0]}
          ELSE timers
     /\ lastExpired' = 0
     /\ UNCHANGED <<requiredSignatureCount, posted, nextObj, latestChainHeights, nodeVars>>

\* The handler resumes after wait(txnSubmitDelay): _postTransactionToChain.
SubmitTimerFires(timer) ==
  /\ timer \in timers
  /\ timer.kind = "submit"
  /\ timer.waited >= timer.delay
  /\ timers' = timers \ {timer}
  /\ posted' = posted \cup {PostRecord(posted, timer.transaction, "handler")}
  /\ emitted' = {}
  /\ lastResult' = NoResult
  /\ lastExpired' = 0
  /\ UNCHANGED <<pendingTransfers, requiredSignatureCount, nextObj, latestChainHeights,
                 nodeVars>>

\* The task of execMultisigTransaction resumes after wait(sigBroadcastDelay).
BroadcastTimerFires(timer) ==
  /\ timer \in timers
  /\ timer.kind = "broadcast"
  /\ timer.waited >= timer.delay
  /\ timers' = timers \ {timer}
  /\ emitted' = {[transactionId |-> timer.transactionId,
                  signature |-> timer.signature, publicKey |-> timer.publicKey]}
  /\ lastResult' = NoResult
  /\ lastExpired' = 0
  /\ UNCHANGED <<pendingTransfers, requiredSignatureCount, posted, nextObj,
                 latestChainHeights, nodeVars>>

\* setInterval(() => this.expireMultisigTransactions(), multisigExpiryCheckInterval)
ExpiryInterval ==
  /\ pendingTransfers' = expireMultisigTransactions(pendingTransfers)
  /\ lastExpired' = Len(pendingTransfers) - Len(pendingTransfers')
  /\ emitted' = {}
  /\ lastResult' = NoResult
  /\ UNCHANGED <<requiredSignatureCount, timers, posted, nextObj, latestChainHeights,
                 nodeVars>>

\* Wall-clock time passes.
TimePasses ==
  /\ pendingTransfers' = AgedTransfers(pendingTransfers, ClockStep)
  /\ timers' = AgedTimers(timers, ClockStep)
  /\ emitted' = {}
  /\ lastResult' = NoResult
  /\ lastExpired' = 0
  /\ UNCHANGED <<requiredSignatureCount, posted, nextObj, latestChainHeights, nodeVars>>

\* processBlock as the registry sees it: on the last block of a batch the
\* rebroadcast sweep; then the outbound transfers of the block leave the
\* registry; then the transactions the block gives rise to are authored.
ProcessBlockRegistry(chainSymbol, isLastBlock, outboundIds, authored, maxAuthorings, maxHeight) ==
  LET chainHeight == latestChainHeights[chainSymbol] + 1
      heights == [latestChainHeights EXCEPT ![chainSymbol] = chainHeight]
      sweepPosts == IF isLastBlock
                    THEN SweepPosts(pendingTransfers, chainSymbol, chainHeight)
                    ELSE <<>>
      sweepBroadcasts == IF isLastBlock
                         THEN SweepBroadcasts(pendingTransfers, chainSymbol, chainHeight)
                         ELSE {}
      map1 == SelectSeq(pendingTransfers,
                        LAMBDA e : e.transaction.id \notin outboundIds)
  IN /\ chainHeight <= maxHeight
     /\ nextObj + Len(authored) <= maxAuthorings
     /\ latestChainHeights' = heights
     /\ posted' = posted \cup SweepPostRecords(posted, sweepPosts)
     /\ emitted' = sweepBroadcasts
     /\ lastResult' = NoResult
     /\ lastExpired' = 0
     /\ pendingTransfers' = AuthorAll(map1, authored, heights, nextObj)
     /\ timers' = timers \cup BroadcastTimers(authored)
     /\ nextObj' = nextObj + Len(authored)
     /\ UNCHANGED <<requiredSignatureCount, nodeVars>>

\* What one block gives rise to in Spec: nothing, or the payout of a trade on
\* the quote chain.
AuthoredChoices == {<<>>, <<[targetChain |-> quoteChainSymbol, message |-> PayoutMessage]>>}

\* No block.
NoBlock == [chainSymbol |-> Null, height |-> 0, timestamp |-> 0, isLastBlock |-> FALSE]

\* startProcessingBlockchains between two calls of processBlockchains.
IdleDriver ==
  [pc |-> "idle", orderedBlockList |-> <<>>, index |-> 0, timestamp |-> Unset,
   currentOrderBook |-> <<>>]

\* A pipeline that has processed nothing.
NoReplica ==
  [pendingTransfers |-> <<>>, timers |-> {}, nextObj |-> 0, posted |-> {},
   emitted |-> {}, orderBook |-> <<>>, lastSnapshot |-> <<>>, dividendQueue |-> <<>>,
   lookups |-> {}, passiveMode |-> FALSE, unhandled |-> 0,
   index |-> 0, pc |-> "idle"]

\* The registry after the constructor; the interleaver before load().
RegistryInit ==
  /\ pendingTransfers = <<>>
  /\ timers = {}
  /\ posted = {}
  /\ emitted = {}
  /\ nextObj = 0
  /\ latestChainHeights = [c \in chainSymbols |-> 0]
  /\ lastResult = NoResult
  /\ lastExpired = 0

InterleaverInit ==
  /\ unhandled = 0
  /\ dividendQueue = <<>>
  /\ lookups = {}
  /\ lastSeenChainHeight = [c \in chainSymbols |-> 0]
  /\ progressingChains = [c \in chainSymbols |-> TRUE]
  /\ isForked = FALSE
  /\ isInForkRecovery = FALSE
  /\ driver = IdleDriver
  /\ lastStarted = NoBlock
  /\ completed = NoBlock
  /\ processed = {}
  /\ recovered = FALSE
  /\ faults = [errors |-> 0, forks |-> 0]

Init ==
  /\ RegistryInit
  /\ requiredSignatureCount \in RequiredCountChoices
  /\ InterleaverInit
  /\ passiveMode = FALSE
  /\ orderBook = <<>>
  /\ lastSnapshot = <<>>
  /\ dbHeight = [c \in chainSymbols |-> 0]
  /\ lastProcessedTimestamp = Unset
  /\ replicas = [r \in {1, 2} |-> NoReplica]
  /\ intake = <<>>

Next ==
  \/ \E signatureData \in SignatureDataSet : NetworkEvent(signatureData)
  \/ \E timer \in timers : SubmitTimerFires(timer)
  \/ \E timer \in timers : BroadcastTimerFires(timer)
  \/ ExpiryInterval
  \/ TimePasses
  \/ \E chainSymbol \in chainSymbols, isLastBlock \in BOOLEAN,
        outboundIds \in SUBSET {PayoutId}, authored \in AuthoredChoices :
       ProcessBlockRegistry(chainSymbol, isLastBlock, outboundIds, authored, MaxAuthorings,
                            MaxHeight)

\* The signature coordinator with one transaction id.
Spec == Init /\ [][Next]_vars

----------------------------------------------------------------------------
(* The signature coordinator: properties. *)

OneEntryPerId ==
  \A i, j \in DOMAIN pendingTransfers :
    pendingTransfers[i].transaction.id = pendingTransfers[j].transaction.id => i = j

\* A step never brings back an older transaction object of an id, and the
\* object a step authors last is the last entry of the registry afterwards.
LatestAuthoringKept ==
  /\ \A i \in DOMAIN pendingTransfers, j \in DOMAIN pendingTransfers' :
       pendingTransfers[i].transaction.id = pendingTransfers'[j].transaction.id
         => pendingTransfers'[j].transaction.obj >= pendingTransfers[i].transaction.obj
  /\ nextObj' # nextObj =>
       /\ pendingTransfers' # <<>>
       /\ pendingTransfers'[Len(pendingTransfers')].transaction.obj = nextObj' - 1

\* C1, as stated: every transaction object (one authoring of an id) is posted to
\* the ledger at most once, whether by the signature handler or by the
\* rebroadcast sweep, and no id has two entries in pendingTransfers.
C1_PostedAtMostOncePerAuthoring ==
  /\ \A p, q \in posted : p.obj = q.obj => p = q
  /\ OneEntryPerId

\* C1, amended: the signature handler posts every transaction object at most
\* once (the rebroadcast sweep posts a ready transaction again at every last
\* block in its window); no id has two entries in pendingTransfers, and
\* re-authoring an id leaves the latest transaction object as its entry.
C1_HandlerPostsAtMostOncePerAuthoring ==
  /\ [](/\ \A p \in posted : p.via = "handler" => p.nth = 1
        /\ OneEntryPerId)
  /\ [][LatestAuthoringKept]_vars

\* The id was authored twice; the sweep posted the first transaction object
\* and the handler the second, which is the entry of the registry.
C1_Witness ==
  /\ Len(pendingTransfers) = 1
  /\ pendingTransfers[1].transaction.obj = 1
  /\ \E p \in posted : p.via = "handler" /\ p.obj = 1
  /\ \E q \in posted : q.via = "sweep" /\ q.obj = 0

\* C6: in every entry of pendingTransfers processedSignatureSet has as many
\* elements as transaction.signatures, and no signature is in the list twice.
C6_SignatureSetMatchesList ==
  \A i \in DOMAIN pendingTransfers :
    LET signatures == pendingTransfers[i].transaction.signatures
    IN /\ Cardinality(pendingTransfers[i].processedSignatureSet) = Len(signatures)
       /\ \A m, n \in DOMAIN signatures : signatures[m] = signatures[n] => m = n

\* _processSignature has just rejected a signature, and an entry holds the
\* signatures of all three members.
C6_Witness ==
  /\ lastResult.ran
  /\ ~lastResult.isAccepted
  /\ \E i \in DOMAIN pendingTransfers :
       Len(pendingTransfers[i].transaction.signatures) = 3

\* What a run of the network:event handler does, up to its wait.
HandlerStepAsClaimed ==
  lastResult'.ran =>
    LET armed == timers' \ timers
    IN IF lastResult'.isAccepted
       THEN \E i \in DOMAIN pendingTransfers', b \in emitted' :
              LET e == pendingTransfers'[i]
              IN /\ emitted' = {b}
                 /\ i \in DOMAIN pendingTransfers
                 /\ b.transactionId = e.transaction.id
                 /\ e.transaction.signatures =
                      Append(pendingTransfers[i].transaction.signatures, b.signature)
                 /\ (armed # {}) <=>
                      (Len(e.transaction.signatures) = requiredSignatureCount[e.targetChain])
                 /\ \A t \in armed :
                      /\ t.kind = "submit"
                      /\ t.transaction.obj = e.transaction.obj
                      /\ t.delay = txnSubmitDelay
                      /\ t.waited = 0
       ELSE /\ armed = {}
            /\ emitted' = {}
            /\ pendingTransfers' = pendingTransfers

\* Where a post by the handler comes from.
HandlerPostAsClaimed ==
  \A p \in posted' \ posted :
    p.via = "handler" =>
      /\ p.nth = 1
      /\ \E t \in timers \ timers' :
           /\ t.kind = "submit"
           /\ t.transaction.obj = p.obj
           /\ t.waited >= txnSubmitDelay

\* C8: the handler schedules the post exactly when the signature it accepted
\* makes signatures.length equal to requiredSignatureCount, and posts once
\* transactionSubmitDelay has passed; every accepted signature is appended and
\* broadcast, and a later one schedules no further post.
C8_PostTriggeredAtQuotaZeroAfterDelay ==
  [][HandlerStepAsClaimed /\ HandlerPostAsClaimed]_vars

\* The handler has posted a transaction and then accepted one more signature
\* for it, above the quota.
C8_Witness ==
  /\ lastResult.isAccepted
  /\ lastResult.signatureQuota > 0
  /\ \E p \in posted, i \in DOMAIN pendingTransfers :
       /\ p.via = "handler"
       /\ pendingTransfers[i].transaction.obj = p.obj
       /\ Len(pendingTransfers[i].transaction.signatures)
            > requiredSignatureCount[pendingTransfers[i].targetChain]

----------------------------------------------------------------------------
(* The order of the registry. *)

\* The outgoing transactions of this part of the model: a payout on the quote
\* chain and a refund on the base chain.
RegistryAuthored ==
  {[targetChain |-> quoteChainSymbol, message |-> PayoutMessage],
   [targetChain |-> baseChainSymbol, message |-> RefundMessage]}

RegistryIds ==
  {TransactionId(a.targetChain, AuthoredData(0), a.message) : a \in RegistryAuthored}

\* A call of execMultisigTransaction by one of its callers, up to the wait
\* before the broadcast; the height is that of the target chain at the call.
ExecMultisigTransactionCall(authored) ==
  /\ nextObj + 1 <= MaxRegistryAuthorings
  /\ pendingTransfers' = AuthorAll(pendingTransfers, <<authored>>, latestChainHeights, nextObj)
  /\ timers' = timers \cup BroadcastTimers(<<authored>>)
  /\ nextObj' = nextObj + 1
  /\ emitted' = {}
  /\ lastResult' = NoResult
  /\ lastExpired' = 0
  /\ UNCHANGED <<requiredSignatureCount, posted, latestChainHeights, nodeVars>>

NextRegistry ==
  \/ \E authored \in RegistryAuthored : ExecMultisigTransactionCall(authored)
  \/ \E chainSymbol \in chainSymbols, isLastBlock \in BOOLEAN,
        outboundIds \in {{}} \cup {{id} : id \in RegistryIds} :
       ProcessBlockRegistry(chainSymbol, isLastBlock, outboundIds, <<>>,
                            MaxRegistryAuthorings, MaxHeight)
  \/ \E timer \in timers : BroadcastTimerFires(timer)
  \/ ExpiryInterval
  \/ TimePasses

\* The registry with two transaction ids: authorings, removals, expiry.
SpecRegistry == Init /\ [][NextRegistry]_vars

\* The entries stand in the order in which their transaction objects were
\* authored.
InAuthoringOrder ==
  \A i, j \in DOMAIN pendingTransfers :
    i < j => pendingTransfers[i].transaction.obj < pendingTransfers[j].transaction.obj

\* What is left after an expiry is the registry before it without some of its
\* first entries.
ExpiryRemovesPrefix ==
  ExpiryInterval =>
    \E k \in 0..Len(pendingTransfers) :
      pendingTransfers' = SubSeq(pendingTransfers, k + 1, Len(pendingTransfers))

\* C7: pendingTransfers iterates in the order of authoring, an id authored again
\* moving to the end; expireMultisigTransactions removes a prefix of that order
\* and leaves the rest as it stood.
C7_InsertionOrderAndPrefixExpiry ==
  /\ []InAuthoringOrder
  /\ [][ExpiryRemovesPrefix]_vars

\* The last step was an expiry that removed the head of the registry and left
\* the entry of an id that was authored again after it, some time ago.
C7_Witness ==
  /\ lastExpired >= 1
  /\ Len(pendingTransfers) >= 1
  /\ pendingTransfers[Len(pendingTransfers)].transaction.obj = 2
  /\ \E i \in DOMAIN pendingTransfers : pendingTransfers[i].age > 0

----------------------------------------------------------------------------
(* The node: configuration of the chains. *)

\* this.options.chains[chain]: the options of a chain, the same for both
\* chains. exchangeFeeRate is 1/10 and dividendRate 1/1, kept as fractions.
chainOptions(chain) ==
  [orderHeightExpiry |-> 1, minOrderAmount |-> 10, exchangeFeeBase |-> 1,
   requiredConfirmations |-> 0, readMaxBlocks |-> 2,
   dividendStartHeight |-> 0, dividendHeightInterval |-> 2,
   dividendHeightOffset |-> 0,
   dexDisabledFromHeight |-> Unset, dexMovedToAddress |-> Null,
   exchangeFeeRateNum |-> 1, exchangeFeeRateDen |-> 10,
   dividendRateNum |-> 1, dividendRateDen |-> 1]

\* this.options.orderBookSnapshotFinality
orderBookSnapshotFinality == 2

\* Number.MAX_SAFE_INTEGER, in the scale of the amounts of the model.
MAX_SAFE_INTEGER == 1000

\* multisigWalletInfo[chain].memberCount
memberCount(chain) == Cardinality(members(chain))

\* Math.floor(a / b) and Math.floor(a * n / d) for non-negative a
FloorDiv(a, b) == a \div b

----------------------------------------------------------------------------
(* The two ledgers: what the storage components hold. *)

\* blocks.timestamp: the base chain forges every 10 s, the quote chain every
\* 5 s, so that every other quote block has the timestamp of a base block.
BlockTimestamp(chain, height) ==
  IF chain = baseChainSymbol THEN 10 * height ELSE 5 * height + 5

\* The rows of blocks of a chain whose database holds maxHeight blocks.
Block(chain, height) ==
  [chainSymbol |-> chain, height |-> height,
   timestamp |-> BlockTimestamp(chain, height), isLastBlock |-> FALSE]

\* A transfer to the wallet of the DEX, as _getInboundTransactions returns it;
\* transferData is kept as the fields between its commas.
Inbound(id, senderId, amount, timestamp, transferData) ==
  [id |-> id, senderId |-> senderId, amount |-> amount, timestamp |-> timestamp,
   transferData |-> transferData]

\* The transfers to the wallet in the block of a chain at a height, in the
\* order of their sort keys: on the base chain a bid and a transfer with an
\* unknown operation at height 3, and at height 4 the close of that bid by its
\* owner; on the quote chain the ask of the loaded snapshot at height 2, an
\* ask at height 4 that the bid crosses, and a limit order below
\* minOrderAmount at height 5.
InboundTransactions(chain, height) ==
  IF chain = baseChainSymbol
  THEN IF height = 3
       THEN <<Inbound("a3", "w1", 100, 30, <<"B", "limit", "1", "w1q">>),
              Inbound("x3", "w3", 20, 30, <<"B", "bogus">>)>>
       ELSE IF height = 4
       THEN <<Inbound("c4", "w1", 2, 40, <<"B", "close", "a3">>)>>
       ELSE <<>>
  ELSE IF height = 2
       THEN <<Inbound("b2", "w6", 30, 15, <<"A", "limit", "2", "w6a">>)>>
       ELSE IF height = 4
       THEN <<Inbound("b4", "w2", 40, 25, <<"A", "limit", "1", "w2b">>)>>
       ELSE IF height = 5
       THEN <<Inbound("u5", "w4", 5, 30, <<"A", "limit", "1", "w4b">>)>>
       ELSE <<>>

\* The refund the node authors for the transfer x3 of base block 3.
RefundOfX3 ==
  [targetChain |-> baseChainSymbol,
   data |-> [amount |-> 19, recipientId |-> "w3", timestamp |-> 30, height |-> NoHeight],
   message |-> <<"r1", "x3", "Invalid order - Invalid operation">>]

\* A trade payout of the wallet on the quote chain, from before the node started.
EarlierPayout ==
  [targetChain |-> quoteChainSymbol,
   data |-> [amount |-> 90, recipientId |-> "w5", timestamp |-> 12, height |-> 1],
   message |-> <<"t1", "A", "o0", "Orders taken">>]

\* A transfer from the wallet of the DEX, as _getOutboundTransactions returns it.
Outbound(txn, signers) ==
  LET id == TransactionId(txn.targetChain, txn.data, txn.message)
  IN [id |-> id, amount |-> txn.data.amount, transferData |-> txn.message,
      signatures |-> [i \in 1..Len(signers) |-> signData(id, signers[i])]]

\* The transfers from the wallet in the block of a chain at a height: the
\* earlier payout, signed by two members, in quote block 4; the refund of x3,
\* signed by all three, in base block 4.
OutboundTransactions(chain, height) ==
  IF chain = quoteChainSymbol /\ height = 4
  THEN <<Outbound(EarlierPayout, <<"k1", "k2">>)>>
  ELSE IF chain = baseChainSymbol /\ height = 4
  THEN <<Outbound(RefundOfX3, <<"k1", "k2", "k3">>)>>
  ELSE <<>>

\* _getBlockAtTimestamp: the height of the latest block at or before a
\* timestamp, 0 when there is none.
HeightAtTimestamp(chain, maxHeight, timestamp) ==
  LET hs == {h \in 1..maxHeight : BlockTimestamp(chain, h) <= timestamp}
  IN IF hs = {} THEN 0 ELSE CHOOSE h \in hs : \A g \in hs : g <= h

\* _getLatestSafeBlocks, were the query without `- $2`: the heights above
\* fromHeight up to the maximum, at most limit of them.
LatestBlocksUnconfirmed(chain, maxHeight, fromHeight, safeHeightOffset, limit) ==
  LET hs == {h \in 1..maxHeight : h > fromHeight}
      n == IF Cardinality(hs) <= limit THEN Cardinality(hs) ELSE limit
  IN [i \in 1..n |-> Block(chain, fromHeight + i)]

\* _getLatestSafeBlocks: heights above fromHeight and at most the maximum less
\* safeHeightOffset, by timestamp, at most limit of them.
LatestSafeBlocks(chain, maxHeight, fromHeight, safeHeightOffset, limit) ==
  LET hs == {h \in 1..maxHeight : h > fromHeight /\ h <= maxHeight - safeHeightOffset}
      n == IF Cardinality(hs) <= limit THEN Cardinality(hs) ELSE limit
  IN [i \in 1..n |-> Block(chain, fromHeight + i)]

----------------------------------------------------------------------------
(* The trade engine (./trade-engine). The book is the sequence of its open  *)
(* orders in the order of their arrival.                                     *)

BookOrder(orderTxn, expiryHeight) ==
  [id |-> orderTxn.id, type |-> orderTxn.type, side |-> orderTxn.side,
   sourceChain |-> orderTxn.sourceChain,
   sourceWalletAddress |-> orderTxn.sourceWalletAddress,
   targetChain |-> orderTxn.targetChain,
   targetWalletAddress |-> orderTxn.targetWalletAddress,
   height |-> orderTxn.height, expiryHeight |-> expiryHeight,
   price |-> orderTxn.price, timestamp |-> orderTxn.timestamp,
   valueRemaining |-> IF orderTxn.side = "bid" THEN orderTxn.sourceChainAmount ELSE 0,
   sizeRemaining |-> IF orderTxn.side = "ask" THEN orderTxn.sourceChainAmount ELSE 0]

BookIndex(book, id) ==
  IF \E i \in DOMAIN book : book[i].id = id
  THEN CHOOSE i \in DOMAIN book : book[i].id = id
  ELSE 0

\* getOrder(id): whether there is such an open order, and the order.
HasOrder(book, id) == BookIndex(book, id) # 0
getOrder(book, id) == book[BookIndex(book, id)]

\* The orders of one side by priority: asks by rising price, bids by falling
\* price, orders of one price by arrival.
SideByPriority(book, side) ==
  LET idx == {i \in DOMAIN book : book[i].side = side}
      Before(j, i) ==
        \/ (side = "ask" /\ book[j].price < book[i].price)
        \/ (side = "bid" /\ book[j].price > book[i].price)
        \/ (book[j].price = book[i].price /\ j < i)
      rank(i) == Cardinality({j \in idx : Before(j, i)})
  IN [k \in 1..Cardinality(idx) |-> book[CHOOSE i \in idx : rank(i) = k - 1]]

\* peekAsks / peekBids: the best order of a side; the book has one.
HasSide(book, side) == \E i \in DOMAIN book : book[i].side = side
peek(book, side) == SideByPriority(book, side)[1]

\* getSnapshot / setSnapshot / clear
getSnapshot(book) ==
  [bidLimitOrders |-> SideByPriority(book, "bid"),
   askLimitOrders |-> SideByPriority(book, "ask")]

setSnapshot(snapshot) == snapshot.bidLimitOrders \o snapshot.askLimitOrders

\* expireBidOrders(h) / expireAskOrders(h): the orders of a side with
\* expiryHeight <= h leave the book.
ExpiredOrders(book, side, height) ==
  SelectSeq(book, LAMBDA o : o.side = side /\ o.expiryHeight <= height)

BookAfterExpiry(book, side, height) ==
  SelectSeq(book, LAMBDA o : ~(o.side = side /\ o.expiryHeight <= height))

\* closeOrder(id), were it to remove every order of the wallet of the order.
BookAfterCloseOfWallet(book, id) ==
  SelectSeq(book, LAMBDA o :
    o.sourceWalletAddress # book[BookIndex(book, id)].sourceWalletAddress)

\* closeOrder(id): the order leaves the book; an error when it is not open.
BookAfterClose(book, id) == SelectSeq(book, LAMBDA o : o.id # id)

\* What a taker takes from one maker: the size and the value of the fill.
FillSize(taker, maker) ==
  IF taker.side = "bid"
  THEN Min(maker.sizeRemaining, FloorDiv(taker.valueRemaining, maker.price))
  ELSE Min(taker.sizeRemaining, FloorDiv(maker.valueRemaining, maker.price))

Crosses(taker, maker) ==
  \/ taker.type = "market"
  \/ (taker.side = "bid" /\ maker.price <= taker.price)
  \/ (taker.side = "ask" /\ maker.price >= taker.price)

\* The fills of a taker against the makers in their priority order.
RECURSIVE MatchOrders(_, _, _)
MatchOrders(taker, makers, result) ==
  IF makers = <<>> \/ ~Crosses(taker, Head(makers)) \/ FillSize(taker, Head(makers)) = 0
  THEN [result EXCEPT !.taker = taker]
  ELSE
    LET maker == Head(makers)
        lastSizeTaken == FillSize(taker, maker)
        lastValueTaken == lastSizeTaken * maker.price
        newTaker ==
          IF taker.side = "bid"
          THEN [taker EXCEPT !.valueRemaining = @ - lastValueTaken]
          ELSE [taker EXCEPT !.sizeRemaining = @ - lastSizeTaken]
        newMaker ==
          IF maker.side = "bid"
          THEN [maker EXCEPT !.valueRemaining = @ - lastValueTaken]
          ELSE [maker EXCEPT !.sizeRemaining = @ - lastSizeTaken]
    IN MatchOrders(newTaker, Tail(makers),
         [result EXCEPT
            !.makers = Append(@, [order |-> newMaker, lastSizeTaken |-> lastSizeTaken,
                                  lastValueTaken |-> lastValueTaken]),
            !.takeSize = @ + lastSizeTaken,
            !.takeValue = @ + lastValueTaken])

Remaining(order) ==
  IF order.side = "bid" THEN order.valueRemaining ELSE order.sizeRemaining

\* addOrder(order): the match result and the book afterwards. An order whose
\* id is open already is an error.
addOrder(book, orderTxn) ==
  LET expiryHeight == orderTxn.height + chainOptions(orderTxn.sourceChain).orderHeightExpiry
      taker == BookOrder(orderTxn, expiryHeight)
      opposite == IF taker.side = "bid" THEN "ask" ELSE "bid"
      result == MatchOrders(taker, SideByPriority(book, opposite),
                            [taker |-> taker, makers |-> <<>>,
                             takeSize |-> 0, takeValue |-> 0])
      Updated(o) ==
        IF \E i \in DOMAIN result.makers : result.makers[i].order.id = o.id
        THEN (CHOOSE m \in {result.makers[i] : i \in DOMAIN result.makers} :
                m.order.id = o.id).order
        ELSE o
      book1 == [i \in DOMAIN book |-> Updated(book[i])]
      book2 == SelectSeq(book1, LAMBDA o : Remaining(o) > 0)
      book3 == IF taker.type = "limit" /\ Remaining(result.taker) > 0
               THEN Append(book2, result.taker) ELSE book2
  IN IF HasOrder(book, orderTxn.id)
     THEN [threw |-> TRUE, book |-> book, result |-> result]
     ELSE [threw |-> FALSE, book |-> book3, result |-> result]

----------------------------------------------------------------------------
(* The pipeline: pure parts. A node is the record of what the pipeline      *)
(* reads and writes: pendingTransfers, timers, nextObj, posted, emitted,    *)
(* orderBook (the book of this.tradeEngine), lastSnapshot (<<>> for null),  *)
(* dividendQueue (dividendProcessingStream), lookups (the expiry callbacks  *)
(* waiting for _getBlockAtHeight), passiveMode, and unhandled (the          *)
(* rejections of the step that nothing handles).                            *)

\* A call of execMultisigTransaction, up to the wait before its broadcast.
Author(node, targetChain, transactionData, message) ==
  [node EXCEPT
     !.pendingTransfers =
        execMultisigTransaction(@, targetChain, transactionData, message, node.nextObj),
     !.timers = @ \cup {BroadcastTimer(targetChain, transactionData, message)},
     !.nextObj = @ + 1]

\* execRefundTransaction: the node afterwards, and whether the call threw.
\* Math.floor of a BigInt is a TypeError.
execRefundTransaction(node, txn, timestamp, reason) ==
  LET refundAmount == txn.sourceChainAmount - chainOptions(txn.sourceChain).exchangeFeeBase
  IN IF txn.isBigInt \/ refundAmount <= 0
     THEN [threw |-> TRUE, node |-> node]
     ELSE [threw |-> FALSE,
           node |-> Author(node, txn.sourceChain,
                           [amount |-> refundAmount,
                            recipientId |-> txn.sourceWalletAddress,
                            height |-> txn.height, timestamp |-> timestamp],
                           reason)]

\* refundOrder
refundOrder(node, order, timestamp, refundHeight, reason) ==
  execRefundTransaction(node,
    [sourceChain |-> order.sourceChain,
     sourceWalletAddress |-> order.sourceWalletAddress,
     height |-> refundHeight,
     sourceChainAmount |-> IF order.sourceChain = baseChainSymbol
                           THEN order.valueRemaining ELSE order.sizeRemaining,
     isBigInt |-> FALSE],
    timestamp, reason)

\* refundOrderBook(snapshot, ...): the orders are read from
\* snapshot.bidLimitOrders and snapshot.askLimitOrders; a snapshot without
\* them is a TypeError. Every order is refunded, and unless a refund threw
\* the book is cleared.
RECURSIVE RefundAll(_, _, _, _, _)
RefundAll(node, orders, timestamp, refundHeight, movedToAddress) ==
  IF orders = <<>> THEN [threw |-> FALSE, node |-> node]
  ELSE LET order == Head(orders)
           reason == IF movedToAddress # Null
                     THEN <<"r5", order.id, movedToAddress, "DEX has moved">>
                     ELSE <<"r6", order.id, "DEX has been disabled">>
           one == refundOrder(node, order, timestamp, refundHeight, reason)
           rest == RefundAll(one.node, Tail(orders), timestamp, refundHeight,
                             movedToAddress)
       IN [threw |-> one.threw \/ rest.threw, node |-> rest.node]

refundOrderBook(node, snapshot, timestamp, refundHeight, movedToAddress) ==
  IF ~({"bidLimitOrders", "askLimitOrders"} \subseteq DOMAIN snapshot)
  THEN [threw |-> TRUE, node |-> node]
  ELSE LET all == RefundAll(node, snapshot.bidLimitOrders \o snapshot.askLimitOrders,
                            timestamp, refundHeight, movedToAddress)
       IN IF all.threw THEN all
          ELSE [threw |-> FALSE, node |-> [all.node EXCEPT !.orderBook = <<>>]]

\* dataParts[k] of transferData.split(','), Null when there is no such part;
\* a transfer without data splits into one empty part.
DataPart(transferData, k) ==
  IF transferData = <<>> THEN (IF k = 0 THEN "" ELSE Null)
  ELSE IF k + 1 <= Len(transferData) THEN transferData[k + 1] ELSE Null

\* Number(string) for the price fields of the model: NaN for what is no number.
NumberOf(string) ==
  IF string = "1" THEN [isNaN |-> FALSE, value |-> 1]
  ELSE IF string = "2" THEN [isNaN |-> FALSE, value |-> 2]
  ELSE IF string = "3" THEN [isNaN |-> FALSE, value |-> 3]
  ELSE IF string = "0" THEN [isNaN |-> FALSE, value |-> 0]
  ELSE IF string = "" THEN [isNaN |-> FALSE, value |-> 0]
  ELSE [isNaN |-> TRUE, value |-> 0]

\* _isLimitOrderTooSmallToConvert; a division by 0 gives Infinity.
isLimitOrderTooSmallToConvert(chainSymbol, amount, price) ==
  IF chainSymbol = baseChainSymbol
  THEN IF price = 0 THEN FALSE
       ELSE FloorDiv(amount, price) <= chainOptions(quoteChainSymbol).exchangeFeeBase
  ELSE amount * price <= chainOptions(baseChainSymbol).exchangeFeeBase

\* _isMarketOrderTooSmallToConvert; without a best order the price is
\* undefined, the value NaN, and the comparison false.
isMarketOrderTooSmallToConvert(book, chainSymbol, amount) ==
  IF chainSymbol = baseChainSymbol
  THEN IF ~HasSide(book, "ask") THEN FALSE
       ELSE FloorDiv(amount, peek(book, "ask").price) <= chainOptions(quoteChainSymbol).exchangeFeeBase
  ELSE IF ~HasSide(book, "bid") THEN FALSE
       ELSE amount * peek(book, "bid").price <= chainOptions(baseChainSymbol).exchangeFeeBase

\* The order a transfer to the wallet stands for (the map over inboundTxns).
ParseOrder(book, chainSymbol, chainHeight, txn) ==
  LET raw == [id |-> txn.id, timestamp |-> txn.timestamp, amount |-> txn.amount,
              sourceChain |-> chainSymbol, sourceWalletAddress |-> txn.senderId,
              sourceChainAmount |-> txn.amount, isBigInt |-> FALSE,
              type |-> Null, reason |-> Null,
              targetChain |-> DataPart(txn.transferData, 0),
              height |-> NoHeight, price |-> 0, targetWalletAddress |-> Null,
              side |-> Null, orderIdToClose |-> Null, movedToAddress |-> Null]
      Invalid(reason) == [raw EXCEPT !.type = "invalid", !.reason = reason]
      sided == [raw EXCEPT !.height = chainHeight,
                           !.side = IF chainSymbol = baseChainSymbol
                                    THEN "bid" ELSE "ask"]
      operation == DataPart(txn.transferData, 1)
      price == NumberOf(DataPart(txn.transferData, 2))
  IN IF txn.amount > MAX_SAFE_INTEGER
     THEN [raw EXCEPT !.type = "oversized", !.isBigInt = TRUE, !.targetChain = Null]
     ELSE IF chainOptions(chainSymbol).dexDisabledFromHeight # Unset
             /\ chainHeight >= chainOptions(chainSymbol).dexDisabledFromHeight
     THEN IF chainOptions(chainSymbol).dexMovedToAddress # Null
          THEN [raw EXCEPT !.type = "moved", !.targetChain = Null,
                           !.movedToAddress = chainOptions(chainSymbol).dexMovedToAddress]
          ELSE [raw EXCEPT !.type = "disabled", !.targetChain = Null]
     ELSE IF ~(raw.targetChain \in chainSymbols /\ raw.targetChain # chainSymbol)
     THEN Invalid("Invalid target chain")
     ELSE IF operation \in {"limit", "market"} /\ txn.amount < chainOptions(chainSymbol).minOrderAmount
     THEN [raw EXCEPT !.type = "undersized"]
     ELSE IF operation = "limit"
     THEN IF price.isNaN THEN Invalid("Invalid price")
          ELSE IF DataPart(txn.transferData, 3) \in {Null, ""}
          THEN Invalid("Invalid wallet address")
          ELSE IF isLimitOrderTooSmallToConvert(chainSymbol, txn.amount, price.value)
          THEN Invalid("Too small to convert")
          ELSE [sided EXCEPT !.type = "limit", !.price = price.value,
                             !.targetWalletAddress = DataPart(txn.transferData, 3)]
     ELSE IF operation = "market"
     THEN IF DataPart(txn.transferData, 2) \in {Null, ""}
          THEN Invalid("Invalid wallet address")
          ELSE IF isMarketOrderTooSmallToConvert(book, chainSymbol, txn.amount)
          THEN Invalid("Too small to convert")
          ELSE [sided EXCEPT !.type = "market",
                             !.targetWalletAddress = DataPart(txn.transferData, 2)]
     ELSE IF operation = "close"
     THEN LET targetOrderId == DataPart(txn.transferData, 2)
          IN IF targetOrderId \in {Null, ""} THEN Invalid("Missing order ID")
             ELSE IF ~HasOrder(book, targetOrderId) THEN Invalid("Invalid order ID")
             ELSE IF getOrder(book, targetOrderId).sourceChain # chainSymbol
             THEN Invalid("Wrong chain")
             ELSE IF getOrder(book, targetOrderId).sourceWalletAddress # txn.senderId
             THEN Invalid("Not authorized")
             ELSE [raw EXCEPT !.type = "close", !.height = chainHeight,
                              !.orderIdToClose = targetOrderId]
     ELSE Invalid("Invalid operation")

OrdersOfType(orders, types) == SelectSeq(orders, LAMBDA o : o.type \in types)

\* The refunds of the rejected orders of one kind, in their order; a refund
\* that throws is logged.
RejectionReason(orderTxn) ==
  IF orderTxn.type = "moved"
  THEN <<"r5", orderTxn.id, orderTxn.movedToAddress, "DEX has moved">>
  ELSE IF orderTxn.type = "disabled"
  THEN <<"r6", orderTxn.id, "DEX has been disabled">>
  ELSE IF orderTxn.type = "invalid"
  THEN <<"r1", orderTxn.id, "Invalid order - " \o orderTxn.reason>>
  ELSE IF orderTxn.type = "oversized"
  THEN <<"r1", orderTxn.id, "Oversized order">>
  ELSE <<"r1", orderTxn.id, "Undersized order">>

RECURSIVE RefundRejected(_, _, _)
RefundRejected(node, orders, latestBlockTimestamp) ==
  IF orders = <<>> THEN node
  ELSE RefundRejected(
         execRefundTransaction(node, Head(orders), latestBlockTimestamp,
                               RejectionReason(Head(orders))).node,
         Tail(orders), latestBlockTimestamp)

\* The callbacks of expiredOrders.forEach, up to their first wait: an order
\* that expires at this height is refunded at once, another waits for the
\* block at its expiry height.
RECURSIVE RefundExpired(_, _, _, _, _)
RefundExpired(node, expiredOrders, chainSymbol, chainHeight, latestBlockTimestamp) ==
  IF expiredOrders = <<>> THEN node
  ELSE LET expiredOrder == Head(expiredOrders)
           node1 ==
             IF node.passiveMode THEN node
             ELSE IF expiredOrder.expiryHeight = chainHeight
             THEN refundOrder(node, expiredOrder, latestBlockTimestamp,
                              expiredOrder.expiryHeight,
                              <<"r2", expiredOrder.id, "Expired order">>).node
             ELSE [node EXCEPT !.lookups =
                     @ \cup {[chainSymbol |-> chainSymbol, order |-> expiredOrder]}]
       IN RefundExpired(node1, Tail(expiredOrders), chainSymbol, chainHeight,
                        latestBlockTimestamp)

\* The callbacks of closeOrders.forEach: the target order is read from the
\* book without a test; reading a field of undefined is a TypeError outside
\* every try, and the promise of the callback is rejected with nobody to
\* handle it.
RECURSIVE CloseOrders(_, _, _)
CloseOrders(node, closeOrders, latestBlockTimestamp) ==
  IF closeOrders = <<>> THEN node
  ELSE LET orderTxn == Head(closeOrders)
           node1 ==
             IF ~HasOrder(node.orderBook, orderTxn.orderIdToClose)
             THEN [node EXCEPT !.unhandled = @ + 1]
             ELSE LET targetOrder == getOrder(node.orderBook, orderTxn.orderIdToClose)
                      refundTxn ==
                        [sourceChain |-> targetOrder.sourceChain,
                         sourceWalletAddress |-> targetOrder.sourceWalletAddress,
                         height |-> orderTxn.height,
                         sourceChainAmount |->
                           (IF targetOrder.sourceChain = baseChainSymbol
                            THEN targetOrder.valueRemaining
                            ELSE targetOrder.sizeRemaining) + orderTxn.sourceChainAmount,
                         isBigInt |-> FALSE]
                      closed == [node EXCEPT !.orderBook =
                                   BookAfterClose(@, orderTxn.orderIdToClose)]
                  IN IF node.passiveMode THEN closed
                     ELSE execRefundTransaction(closed, refundTxn, latestBlockTimestamp,
                            <<"r3", targetOrder.id, orderTxn.id, "Closed order">>).node
       IN CloseOrders(node1, Tail(closeOrders), latestBlockTimestamp)

\* The amount of a payout, were the rate taken of the whole amount and the
\* base fee subtracted afterwards: Math.floor(amount * (1 - rate) - base).
AfterFeesRateFirst(chain, amount) ==
  FloorDiv(amount * (chainOptions(chain).exchangeFeeRateDen
                       - chainOptions(chain).exchangeFeeRateNum)
             - chainOptions(chain).exchangeFeeBase * chainOptions(chain).exchangeFeeRateDen,
           chainOptions(chain).exchangeFeeRateDen)

\* The amount of a payout after the fees of its chain:
\* amount -= exchangeFeeBase; amount -= amount * exchangeFeeRate; Math.floor.
AfterFees(chain, amount) ==
  LET reduced == amount - chainOptions(chain).exchangeFeeBase
  IN IF reduced <= 0 THEN reduced
     ELSE FloorDiv(reduced * (chainOptions(chain).exchangeFeeRateDen - chainOptions(chain).exchangeFeeRateNum),
                   chainOptions(chain).exchangeFeeRateDen)

RECURSIVE PayMakers(_, _, _, _, _)
PayMakers(node, makers, orderTxn, taker, heights) ==
  IF makers = <<>> THEN node
  ELSE LET makerOrder == Head(makers).order
           makerAmount ==
             AfterFees(makerOrder.targetChain,
                       IF makerOrder.targetChain = baseChainSymbol
                       THEN Head(makers).lastValueTaken ELSE Head(makers).lastSizeTaken)
           node1 ==
             IF makerAmount <= 0 THEN node
             ELSE Author(node, makerOrder.targetChain,
                         [amount |-> makerAmount,
                          recipientId |-> makerOrder.targetWalletAddress,
                          height |-> heights[makerOrder.targetChain],
                          timestamp |-> orderTxn.timestamp + 1],
                         <<"t2", makerOrder.sourceChain, makerOrder.id, taker.id,
                           "Order made">>)
       IN PayMakers(node1, Tail(makers), orderTxn, taker, heights)

\* What the taker of a match is paid, after the fees of its target chain.
TakerAmount(result) ==
  AfterFees(result.taker.targetChain,
            IF result.taker.targetChain = baseChainSymbol
            THEN result.takeValue ELSE result.takeSize)

\* The refund of what a market order has left, after the payout of its taker.
RefundMarketRest(node, orderTxn, taker, latestBlockTimestamp) ==
  IF orderTxn.type = "market" /\ Remaining(taker) > 0
  THEN execRefundTransaction(node,
         [sourceChain |-> taker.sourceChain,
          sourceWalletAddress |-> taker.sourceWalletAddress,
          height |-> orderTxn.height, sourceChainAmount |-> Remaining(taker),
          isBigInt |-> FALSE],
         latestBlockTimestamp,
         <<"r4", orderTxn.id, "Unmatched market order part">>).node
  ELSE node

\* The payouts of a match: the taker, the rest of a market order, the makers.
\* A taker amount that the fees use up ends the callback before the makers.
PayTrade(node, orderTxn, result, takerAmount, heights, latestBlockTimestamp) ==
  IF takerAmount <= 0 THEN node
  ELSE PayMakers(
         RefundMarketRest(
           Author(node, result.taker.targetChain,
                  [amount |-> takerAmount,
                   recipientId |-> result.taker.targetWalletAddress,
                   height |-> heights[result.taker.targetChain],
                   timestamp |-> orderTxn.timestamp + 1],
                  <<"t1", result.taker.sourceChain, result.taker.id, "Orders taken">>),
           orderTxn, result.taker, latestBlockTimestamp),
         result.makers, orderTxn, result.taker, heights)

\* One callback of limitAndMarketOrders.forEach, given what addOrder did.
MatchOrder(node, orderTxn, added, heights, latestBlockTimestamp) ==
  IF added.threw THEN node
  ELSE IF added.result.takeSize <= 0 \/ node.passiveMode
  THEN [node EXCEPT !.orderBook = added.book]
  ELSE PayTrade([node EXCEPT !.orderBook = added.book], orderTxn, added.result,
                TakerAmount(added.result), heights, latestBlockTimestamp)

\* The callbacks of limitAndMarketOrders.forEach.
RECURSIVE MatchAll(_, _, _, _)
MatchAll(node, orders, heights, latestBlockTimestamp) ==
  IF orders = <<>> THEN node
  ELSE MatchAll(
         MatchOrder(node, Head(orders), addOrder(node.orderBook, Head(orders)),
                    heights, latestBlockTimestamp),
         Tail(orders), heights, latestBlockTimestamp)

\* _getMemberWalletAddress: the address of the member whose key verifies the
\* signature, Null when there is none.
getMemberWalletAddress(chainSymbol, transaction, signature) ==
  LET keys == {publicKey \in members(chainSymbol) :
                 verifySignature(chainSymbol, publicKey, transaction, signature)}
  IN IF keys = {} THEN Null
     ELSE getAddressFromPublicKey(CHOOSE publicKey \in keys : TRUE)

\* _calculateContributions: only trade transactions (t1 and t2) count; every
\* member signature of one contributes the amount before the fee.
calculateContributions(chainSymbol, transaction) ==
  IF transaction.transferData = <<>> \/ transaction.transferData[1] \notin {"t1", "t2"}
  THEN <<>>
  ELSE LET amountBeforeFee ==
             FloorDiv(transaction.amount * chainOptions(chainSymbol).exchangeFeeRateDen,
                      chainOptions(chainSymbol).exchangeFeeRateDen - chainOptions(chainSymbol).exchangeFeeRateNum)
           all == [i \in DOMAIN transaction.signatures |->
                     [walletAddress |-> getMemberWalletAddress(chainSymbol, transaction,
                                                               transaction.signatures[i]),
                      amount |-> amountBeforeFee]]
       IN SelectSeq(all, LAMBDA c : c.walletAddress # Null)

\* contributionData, as the sequence of its keys in insertion order with their
\* sums, after the contributions of a list.
RECURSIVE AddContributions(_, _)
AddContributions(contributionData, contributionList) ==
  IF contributionList = <<>> THEN contributionData
  ELSE LET c == Head(contributionList)
           known == {i \in DOMAIN contributionData :
                       contributionData[i].walletAddress = c.walletAddress}
           added ==
             IF known = {} THEN Append(contributionData, c)
             ELSE [i \in DOMAIN contributionData |->
                     IF i \in known
                     THEN [contributionData[i] EXCEPT !.amount = @ + c.amount]
                     ELSE contributionData[i]]
       IN AddContributions(added, Tail(contributionList))

RECURSIVE ContributionsOfTransactions(_, _, _)
ContributionsOfTransactions(contributionData, chainSymbol, outboundTxns) ==
  IF outboundTxns = <<>> THEN contributionData
  ELSE ContributionsOfTransactions(
         AddContributions(contributionData,
                          calculateContributions(chainSymbol, Head(outboundTxns))),
         chainSymbol, Tail(outboundTxns))

\* The scan of the dividend consumer: the blocks above fromHeight up to
\* toHeight that the database holds, in the order of their heights.
RECURSIVE ContributionsOfBlocks(_, _, _, _)
ContributionsOfBlocks(contributionData, chainSymbol, height, lastHeight) ==
  IF height > lastHeight THEN contributionData
  ELSE ContributionsOfBlocks(
         ContributionsOfTransactions(contributionData, chainSymbol,
                                     OutboundTransactions(chainSymbol, height)),
         chainSymbol, height + 1, lastHeight)

\* this.dividendFunction, the default one
dividendFunction(chainSymbol, contributionData) ==
  [i \in DOMAIN contributionData |->
     [walletAddress |-> contributionData[i].walletAddress,
      amount |-> FloorDiv(contributionData[i].amount * chainOptions(chainSymbol).dividendRateNum
                            * chainOptions(chainSymbol).exchangeFeeRateNum,
                          chainOptions(chainSymbol).dividendRateDen * chainOptions(chainSymbol).exchangeFeeRateDen
                            * memberCount(chainSymbol))]]

\* The authorings of the dividend consumer for one job; neither passiveMode
\* nor the sign of the amount is tested.
RECURSIVE AuthorDividends(_, _, _, _)
AuthorDividends(node, dividendList, event, fromHeight) ==
  IF dividendList = <<>> THEN node
  ELSE AuthorDividends(
         Author(node, event.chainSymbol,
                [amount |-> Head(dividendList).amount - chainOptions(event.chainSymbol).exchangeFeeBase,
                 recipientId |-> Head(dividendList).walletAddress,
                 height |-> event.chainHeight,
                 timestamp |-> event.latestBlockTimestamp],
                <<"d1", fromHeight + 1, event.toHeight, "Member dividend">>),
         Tail(dividendList), event, fromHeight)

\* One job of the dividend consumer, against a database of maxHeight blocks.
DividendJob(node, event, maxHeight) ==
  LET interval == chainOptions(event.chainSymbol).dividendHeightInterval
      fromHeight == IF event.toHeight - interval < 1 THEN 1
                    ELSE event.toHeight - interval
      contributionData ==
        IF fromHeight > maxHeight THEN <<>>
        ELSE ContributionsOfBlocks(<<>>, event.chainSymbol, fromHeight + 1,
                                   Min(event.toHeight, maxHeight))
  IN AuthorDividends(node, dividendFunction(event.chainSymbol, contributionData),
                     event, fromHeight)

\* An expiry callback resumes with the block at the expiry height of its order.
LookupRefund(node, lookup, maxHeight) ==
  IF lookup.order.expiryHeight > maxHeight \/ lookup.order.expiryHeight < 1 THEN node
  ELSE refundOrder(node, lookup.order,
                   BlockTimestamp(lookup.chainSymbol, lookup.order.expiryHeight),
                   lookup.order.expiryHeight,
                   <<"r2", lookup.order.id, "Expired order">>).node

\* processBlock up to its wait for the transactions of the block: the
\* rebroadcast sweep on the last block of a batch, and the dividend job of a
\* dividend height.
BlockStart(node, block) ==
  LET chainSymbol == block.chainSymbol
      chainHeight == block.height
      sweepPosts == IF block.isLastBlock
                    THEN SweepPosts(node.pendingTransfers, chainSymbol, chainHeight)
                    ELSE <<>>
      sweepBroadcasts == IF block.isLastBlock
                         THEN SweepBroadcasts(node.pendingTransfers, chainSymbol, chainHeight)
                         ELSE {}
      dividendTargetHeight == chainHeight - chainOptions(chainSymbol).dividendHeightOffset
  IN [node EXCEPT
        !.posted = @ \cup SweepPostRecords(@, sweepPosts),
        !.emitted = @ \cup sweepBroadcasts,
        !.dividendQueue =
           IF /\ dividendTargetHeight > chainOptions(chainSymbol).dividendStartHeight
              /\ dividendTargetHeight % chainOptions(chainSymbol).dividendHeightInterval = 0
           THEN Append(@, [chainSymbol |-> chainSymbol, chainHeight |-> chainHeight,
                           toHeight |-> dividendTargetHeight,
                           latestBlockTimestamp |-> block.timestamp])
           ELSE @]

\* The outbound transfers of the block leave the registry.
DeleteOutbound(node, outboundTxns) ==
  [node EXCEPT !.pendingTransfers =
     SelectSeq(@, LAMBDA e :
       \A i \in DOMAIN outboundTxns : e.transaction.id # outboundTxns[i].id)]

\* orders: the inbound transfers of the block, parsed against the book.
ParsedOrders(book, chainSymbol, chainHeight, inboundTxns) ==
  [i \in DOMAIN inboundTxns |-> ParseOrder(book, chainSymbol, chainHeight, inboundTxns[i])]

\* The rejected orders in the order of their refunds: moved, disabled,
\* invalid, oversized, undersized. In passiveMode none is refunded.
RefundAllRejected(node, orders, latestBlockTimestamp) ==
  IF node.passiveMode THEN node
  ELSE RefundRejected(node,
         OrdersOfType(orders, {"moved"}) \o OrdersOfType(orders, {"disabled"})
           \o OrdersOfType(orders, {"invalid"}) \o OrdersOfType(orders, {"oversized"})
           \o OrdersOfType(orders, {"undersized"}),
         latestBlockTimestamp)

\* expireBidOrders on the base chain, expireAskOrders on the quote chain, and
\* the callbacks for the expired orders.
SideOf(chainSymbol) == IF chainSymbol = baseChainSymbol THEN "bid" ELSE "ask"

ExpireOrders(node, block) ==
  RefundExpired(
    [node EXCEPT !.orderBook = BookAfterExpiry(@, SideOf(block.chainSymbol), block.height)],
    ExpiredOrders(node.orderBook, SideOf(block.chainSymbol), block.height),
    block.chainSymbol, block.height, block.timestamp)

\* The phases of processBlock, were the closes applied before the expiry.
BlockOrdersCloseFirst(node, orders, block, heights) ==
  MatchAll(
    ExpireOrders(CloseOrders(RefundAllRejected(node, orders, block.timestamp),
                             OrdersOfType(orders, {"close"}), block.timestamp),
                 block),
    OrdersOfType(orders, {"limit", "market"}), heights, block.timestamp)

\* The phases of processBlock over the orders of the block: refunds of the
\* rejected, expiry, closes, matches.
BlockOrders(node, orders, block, heights) ==
  MatchAll(
    CloseOrders(ExpireOrders(RefundAllRejected(node, orders, block.timestamp), block),
                OrdersOfType(orders, {"close"}), block.timestamp),
    OrdersOfType(orders, {"limit", "market"}), heights, block.timestamp)

\* processBlock from the transactions of the block to the snapshot tick.
BlockTransactions(node, block, heights) ==
  BlockOrders(
    DeleteOutbound(node, OutboundTransactions(block.chainSymbol, block.height)),
    ParsedOrders(node.orderBook, block.chainSymbol, block.height,
                 InboundTransactions(block.chainSymbol, block.height)),
    block, heights)

\* The snapshot tick of processBlock up to its wait for saveSnapshot: whether
\* this is a tick, and the node after the refund of the order book, which is
\* made when dexDisabledFromHeight lies in the range of the last snapshot.
IsSnapshotTick(block) ==
  /\ block.chainSymbol = baseChainSymbol
  /\ block.height % orderBookSnapshotFinality = 0

SnapshotRefundOptions(node, block, dexDisabledFromHeight, dexMovedToAddress) ==
  LET snapshotBaseChainHeight == node.lastSnapshot[1].chainHeights[baseChainSymbol]
  IN IF /\ dexDisabledFromHeight # Unset
        /\ snapshotBaseChainHeight >= dexDisabledFromHeight
        /\ snapshotBaseChainHeight - orderBookSnapshotFinality < dexDisabledFromHeight
     THEN refundOrderBook(node, node.lastSnapshot[1], block.timestamp, block.height,
                          dexMovedToAddress).node
     ELSE node

SnapshotRefund(node, block) ==
  SnapshotRefundOptions(node, block,
                        chainOptions(block.chainSymbol).dexDisabledFromHeight,
                        chainOptions(block.chainSymbol).dexMovedToAddress)

NewSnapshot(currentOrderBook, heights) ==
  <<[orderBook |-> currentOrderBook, chainHeights |-> heights]>>

----------------------------------------------------------------------------
(* The interleaver and the pipeline: steps. *)

\* How far the ledgers grow, and how many failed queries and fork events a
\* run has.
MaxBaseHeight == 4
MaxQuoteHeight == 5
MaxErrors == 1
MaxForks == 1

MaxDbHeight(chain) == IF chain = baseChainSymbol THEN MaxBaseHeight ELSE MaxQuoteHeight

\* What the pipeline reads and writes, as one record.
NodeState ==
  [pendingTransfers |-> pendingTransfers, timers |-> timers, nextObj |-> nextObj,
   posted |-> posted, emitted |-> {}, orderBook |-> orderBook,
   lastSnapshot |-> lastSnapshot, dividendQueue |-> dividendQueue,
   lookups |-> lookups, passiveMode |-> passiveMode, unhandled |-> 0]

SetNodeState(node) ==
  /\ pendingTransfers' = node.pendingTransfers
  /\ timers' = node.timers
  /\ nextObj' = node.nextObj
  /\ posted' = node.posted
  /\ emitted' = node.emitted
  /\ orderBook' = node.orderBook
  /\ lastSnapshot' = node.lastSnapshot
  /\ dividendQueue' = node.dividendQueue
  /\ lookups' = node.lookups
  /\ unhandled' = node.unhandled
  /\ lastResult' = NoResult
  /\ lastExpired' = 0
  /\ UNCHANGED <<passiveMode, requiredSignatureCount, replicas, intake>>

\* orderedBlockList of processBlockchains: the base blocks and the quote
\* blocks up to the timestamp of the last base block, the last of each marked,
\* sorted by timestamp, a base block before a quote block of its timestamp.
MarkLast(blocks) ==
  [i \in DOMAIN blocks |-> [blocks[i] EXCEPT !.isLastBlock = (i = Len(blocks))]]

BlockBefore(a, b) ==
  \/ a.timestamp < b.timestamp
  \/ a.timestamp = b.timestamp /\ a.chainSymbol = baseChainSymbol
                               /\ b.chainSymbol # baseChainSymbol

OrderedBlockList(baseChainBlocks, safeQuoteChainBlocks) ==
  LET all == MarkLast(baseChainBlocks) \o MarkLast(safeQuoteChainBlocks)
      rank(i) == Cardinality({j \in DOMAIN all :
                   \/ BlockBefore(all[j], all[i])
                   \/ (~BlockBefore(all[i], all[j]) /\ j < i)})
  IN [k \in DOMAIN all |-> all[CHOOSE i \in DOMAIN all : rank(i) = k - 1]]

\* The loop of processBlockchains from the block at index: past the end of
\* the list, or stopped by a fork, lastProcessedTimestamp becomes the
\* timestamp of the last block of the list and the tick ends; else the block
\* is given to processBlock, which runs up to its first wait.
LoopFrom(node, list, index, heights, timestamp) ==
  IF index > Len(list) \/ isInForkRecovery
  THEN /\ SetNodeState(node)
       /\ lastProcessedTimestamp' = list[Len(list)].timestamp
       /\ driver' = IdleDriver
       /\ latestChainHeights' = heights
       /\ UNCHANGED <<lastStarted, recovered>>
  ELSE /\ SetNodeState(BlockStart(node, list[index]))
       /\ lastProcessedTimestamp' = timestamp
       /\ driver' = [pc |-> "transactions", orderedBlockList |-> list, index |-> index,
                     timestamp |-> Unset, currentOrderBook |-> <<>>]
       /\ latestChainHeights' = [heights EXCEPT ![list[index].chainSymbol] =
                                   list[index].height]
       /\ lastStarted' = [list[index] EXCEPT !.isLastBlock = FALSE]
       /\ recovered' = FALSE

\* processBlock has returned for the block at driver.index.
AfterBlock(node) ==
  LET list == driver.orderedBlockList
      block == list[driver.index]
  IN /\ completed' = [block EXCEPT !.isLastBlock = FALSE]
     /\ processed' = processed \cup {<<block.chainSymbol, block.height>>}
     /\ LoopFrom(node, list, driver.index + 1, latestChainHeights,
                 IF block.chainSymbol = quoteChainSymbol THEN block.timestamp
                 ELSE lastProcessedTimestamp)

Quiet ==
  /\ emitted' = {}
  /\ lastResult' = NoResult
  /\ lastExpired' = 0
  /\ unhandled' = 0
  /\ completed' = NoBlock

\* processBlockchains is called. Without a cursor, or in a fork that lasts,
\* it returns 0. After a fork it clears the registry and calls
\* revertToLastSnapshot, which without a snapshot clears the book and returns
\* undefined. Then it asks each ledger for the block at the cursor.
ProcessBlockchains ==
  /\ driver.pc = "idle"
  /\ lastProcessedTimestamp # Unset
  /\ ~(isInForkRecovery /\ isForked)
  /\ Quiet
  /\ IF isInForkRecovery
     THEN /\ isInForkRecovery' = FALSE
          /\ pendingTransfers' = <<>>
          /\ recovered' = TRUE
          /\ UNCHANGED processed
          /\ lastStarted' = NoBlock
          /\ IF lastSnapshot = <<>>
             THEN /\ orderBook' = <<>>
                  /\ lastProcessedTimestamp' = Unset
                  /\ driver' = [IdleDriver EXCEPT !.pc = "heights"]
             ELSE /\ orderBook' = setSnapshot(lastSnapshot[1].orderBook)
                  /\ driver' = [IdleDriver EXCEPT !.pc = "revert"]
                  /\ UNCHANGED lastProcessedTimestamp
     ELSE /\ driver' = [IdleDriver EXCEPT !.pc = "heights",
                                          !.timestamp = lastProcessedTimestamp]
          /\ UNCHANGED <<isInForkRecovery, pendingTransfers, recovered, processed, lastStarted,
                         orderBook, lastProcessedTimestamp>>
  /\ UNCHANGED <<requiredSignatureCount, timers, posted, nextObj, latestChainHeights,
                 passiveMode, lastSnapshot, dividendQueue, lookups, dbHeight,
                 lastSeenChainHeight, progressingChains, isForked, faults, replicas, intake>>

\* revertToLastSnapshot returns the timestamp of the base block at the height
\* of the snapshot.
RevertResolves ==
  /\ driver.pc = "revert"
  /\ Quiet
  /\ lastProcessedTimestamp' =
       BlockTimestamp(baseChainSymbol, lastSnapshot[1].chainHeights[baseChainSymbol])
  /\ driver' = [IdleDriver EXCEPT !.pc = "heights", !.timestamp = lastProcessedTimestamp']
  /\ UNCHANGED <<pendingTransfers, requiredSignatureCount, timers, posted, nextObj,
                 latestChainHeights, passiveMode, orderBook, lastSnapshot,
                 dividendQueue, lookups, dbHeight, lastSeenChainHeight,
                 progressingChains, isForked, isInForkRecovery, lastStarted,
                 recovered, processed, faults, replicas, intake>>

\* The blocks at the cursor arrive. Reading the height of no block is a
\* TypeError that ends startProcessingBlockchains.
HeightsResolve ==
  LET heights == [c \in chainSymbols |->
                    IF driver.timestamp = Unset THEN 0
                    ELSE HeightAtTimestamp(c, dbHeight[c], driver.timestamp)]
  IN /\ driver.pc = "heights"
     /\ Quiet
     /\ IF \E c \in chainSymbols : heights[c] = 0
        THEN /\ driver' = [IdleDriver EXCEPT !.pc = "dead"]
             /\ UNCHANGED latestChainHeights
        ELSE /\ driver' = [IdleDriver EXCEPT !.pc = "fetch"]
             /\ latestChainHeights' = heights
     /\ UNCHANGED <<pendingTransfers, requiredSignatureCount, timers, posted, nextObj,
                    passiveMode, orderBook, lastSnapshot, dividendQueue, lookups,
                    dbHeight, lastSeenChainHeight, progressingChains, isForked,
                    isInForkRecovery, lastProcessedTimestamp, lastStarted, recovered, processed,
                    faults, replicas, intake>>

\* The blocks above the cursor arrive: without a base block, or without a
\* quote block up to the last base block, the tick ends; else the list is
\* built and its first block started.
FetchResolves ==
  LET blocks(c) == LatestSafeBlocks(c, dbHeight[c], latestChainHeights[c],
                                    chainOptions(c).requiredConfirmations, chainOptions(c).readMaxBlocks)
      baseChainBlocks == blocks(baseChainSymbol)
      quoteChainBlocks == blocks(quoteChainSymbol)
      baseChainLastBlock == baseChainBlocks[Len(baseChainBlocks)]
      safeQuoteChainBlocks ==
        SelectSeq(quoteChainBlocks,
                  LAMBDA block : block.timestamp <= baseChainLastBlock.timestamp)
  IN /\ driver.pc = "fetch"
     /\ completed' = NoBlock
     /\ IF \/ baseChainBlocks = <<>>
           \/ quoteChainBlocks = <<>>
           \/ safeQuoteChainBlocks = <<>>
        THEN /\ driver' = IdleDriver
             /\ SetNodeState(NodeState)
             /\ UNCHANGED <<latestChainHeights, lastProcessedTimestamp, lastStarted,
                            recovered>>
        ELSE LoopFrom(NodeState, OrderedBlockList(baseChainBlocks, safeQuoteChainBlocks),
                      1, latestChainHeights, lastProcessedTimestamp)
     /\ UNCHANGED <<dbHeight, lastSeenChainHeight, progressingChains, isForked,
                    isInForkRecovery, processed, faults>>

\* The transactions of the block arrive: processBlock runs to its end, or on
\* a snapshot tick with an earlier snapshot to its wait for saveSnapshot.
TransactionsResolve ==
  /\ driver.pc = "transactions"
  /\ \E block \in {driver.orderedBlockList[driver.index]} :
       \E node \in {BlockTransactions(NodeState, block, latestChainHeights)} :
         IF IsSnapshotTick(block) /\ node.lastSnapshot # <<>>
         THEN /\ SetNodeState(SnapshotRefund(node, block))
              /\ driver' = [driver EXCEPT !.pc = "saveSnapshot",
                                          !.currentOrderBook = getSnapshot(node.orderBook)]
              /\ completed' = NoBlock
              /\ UNCHANGED <<latestChainHeights, lastProcessedTimestamp, lastStarted,
                             recovered, processed>>
         ELSE IF IsSnapshotTick(block)
         THEN AfterBlock([node EXCEPT !.lastSnapshot =
                            NewSnapshot(getSnapshot(node.orderBook), latestChainHeights)])
         ELSE AfterBlock(node)
  /\ UNCHANGED <<dbHeight, lastSeenChainHeight, progressingChains, isForked,
                 isInForkRecovery, faults>>

\* The query for the transactions of the block fails: processBlock throws,
\* processBlockchains logs the error and returns.
TransactionsReject ==
  /\ driver.pc = "transactions"
  /\ faults.errors < MaxErrors
  /\ faults' = [faults EXCEPT !.errors = @ + 1]
  /\ Quiet
  /\ driver' = IdleDriver
  /\ UNCHANGED <<pendingTransfers, requiredSignatureCount, timers, posted, nextObj,
                 latestChainHeights, passiveMode, orderBook, lastSnapshot,
                 dividendQueue, lookups, dbHeight, lastSeenChainHeight,
                 progressingChains, isForked, isInForkRecovery,
                 lastProcessedTimestamp, lastStarted, recovered, processed, replicas, intake>>

\* saveSnapshot has returned or thrown: the snapshot taken before the wait
\* becomes this.lastSnapshot, and processBlock returns.
SaveSnapshotResolves ==
  /\ driver.pc = "saveSnapshot"
  /\ AfterBlock([NodeState EXCEPT !.lastSnapshot =
                   NewSnapshot(driver.currentOrderBook, latestChainHeights)])
  /\ UNCHANGED <<dbHeight, lastSeenChainHeight, progressingChains, isForked,
                 isInForkRecovery, faults>>

\* The dividend consumer takes a job, scans the ledger and authors.
DividendJobCompletes ==
  /\ dividendQueue # <<>>
  /\ LET event == Head(dividendQueue)
     IN SetNodeState(DividendJob([NodeState EXCEPT !.dividendQueue = Tail(@)], event,
                                 dbHeight[event.chainSymbol]))
  /\ completed' = NoBlock
  /\ UNCHANGED <<latestChainHeights, dbHeight, lastSeenChainHeight, progressingChains,
                 isForked, isInForkRecovery, lastProcessedTimestamp, driver,
                 lastStarted, recovered, processed, faults>>

\* _getBlockAtHeight returns to an expiry callback.
LookupCompletes(lookup) ==
  /\ lookup \in lookups
  /\ SetNodeState(LookupRefund([NodeState EXCEPT !.lookups = @ \ {lookup}], lookup,
                               dbHeight[lookup.chainSymbol]))
  /\ completed' = NoBlock
  /\ UNCHANGED <<latestChainHeights, dbHeight, lastSeenChainHeight, progressingChains,
                 isForked, isInForkRecovery, lastProcessedTimestamp, driver,
                 lastStarted, recovered, processed, faults>>

\* The blocks:change handler, were isInForkRecovery left as it is.
BlocksChangeWithoutRecovery(chainSymbol, chainHeight) ==
  LET progressing == [progressingChains EXCEPT ![chainSymbol] =
                        chainHeight > lastSeenChainHeight[chainSymbol]]
      areAllChainsProgressing == \A c \in chainSymbols : progressing[c]
  IN /\ progressingChains' = progressing
     /\ lastSeenChainHeight' = [lastSeenChainHeight EXCEPT ![chainSymbol] = chainHeight]
     /\ lastProcessedTimestamp' =
          IF lastProcessedTimestamp = Unset
          THEN BlockTimestamp(chainSymbol, chainHeight)
          ELSE lastProcessedTimestamp
     /\ isForked' = ~areAllChainsProgressing
     /\ isInForkRecovery' = isInForkRecovery

\* The blocks:change handler of a chain, for a block at a height.
BlocksChange(chainSymbol, chainHeight) ==
  LET progressing == [progressingChains EXCEPT ![chainSymbol] =
                        chainHeight > lastSeenChainHeight[chainSymbol]]
      areAllChainsProgressing == \A c \in chainSymbols : progressing[c]
  IN /\ progressingChains' = progressing
     /\ lastSeenChainHeight' = [lastSeenChainHeight EXCEPT ![chainSymbol] = chainHeight]
     /\ lastProcessedTimestamp' =
          IF lastProcessedTimestamp = Unset
          THEN BlockTimestamp(chainSymbol, chainHeight)
          ELSE lastProcessedTimestamp
     /\ isForked' = ~areAllChainsProgressing
     /\ isInForkRecovery' = (isInForkRecovery \/ ~areAllChainsProgressing)

\* A chain forges a block: its ledger grows, and blocks:change is published.
NewBlock(chainSymbol) ==
  /\ dbHeight[chainSymbol] < MaxDbHeight(chainSymbol)
  /\ dbHeight' = [dbHeight EXCEPT ![chainSymbol] = @ + 1]
  /\ BlocksChange(chainSymbol, dbHeight[chainSymbol] + 1)
  /\ Quiet
  /\ UNCHANGED <<pendingTransfers, requiredSignatureCount, timers, posted, nextObj,
                 latestChainHeights, passiveMode, orderBook, lastSnapshot,
                 dividendQueue, lookups, driver, lastStarted, recovered, processed, faults,
                 replicas, intake>>

\* A chain replaces its last block by another of the same content: blocks:change
\* is published for a height that was seen.
ForkEvent(chainSymbol) ==
  /\ faults.forks < MaxForks
  /\ lastSeenChainHeight[chainSymbol] = dbHeight[chainSymbol]
  /\ faults' = [faults EXCEPT !.forks = @ + 1]
  /\ BlocksChange(chainSymbol, dbHeight[chainSymbol])
  /\ Quiet
  /\ UNCHANGED <<pendingTransfers, requiredSignatureCount, timers, posted, nextObj,
                 latestChainHeights, passiveMode, orderBook, lastSnapshot,
                 dividendQueue, lookups, dbHeight, driver, lastStarted, recovered, processed,
                 replicas, intake>>

\* The snapshot file of a node that has run before: taken at base height 2,
\* with one ask that expires at quote height 3.
LoadedSnapshot ==
  [orderBook |->
     [bidLimitOrders |-> <<>>,
      askLimitOrders |->
        <<[id |-> "b2", type |-> "limit", side |-> "ask",
           sourceChain |-> quoteChainSymbol, sourceWalletAddress |-> "w6",
           targetChain |-> baseChainSymbol, targetWalletAddress |-> "w6a",
           height |-> 2, expiryHeight |-> 3, price |-> 2, timestamp |-> 15,
           valueRemaining |-> 0, sizeRemaining |-> 30]>>],
   chainHeights |-> [c \in chainSymbols |-> 2]]

\* The ledgers when the node starts.
StartHeights == [c \in chainSymbols |-> IF c = baseChainSymbol THEN 2 ELSE 3]

\* The node after load(): with or without passiveMode; loadSnapshot has failed
\* (no file) or has set the book, the snapshot and the cursor.
InitNode ==
  /\ RegistryInit
  /\ requiredSignatureCount = [c \in chainSymbols |-> 2]
  /\ InterleaverInit
  /\ passiveMode \in BOOLEAN
  /\ dbHeight = StartHeights
  /\ \/ /\ orderBook = <<>>
        /\ lastSnapshot = <<>>
        /\ lastProcessedTimestamp = Unset
     \/ /\ orderBook = setSnapshot(LoadedSnapshot.orderBook)
        /\ lastSnapshot = <<LoadedSnapshot>>
        /\ lastProcessedTimestamp =
             BlockTimestamp(baseChainSymbol, LoadedSnapshot.chainHeights[baseChainSymbol])
  /\ replicas = [r \in {1, 2} |-> NoReplica]
  /\ intake = <<>>

NextNode ==
  \/ ProcessBlockchains
  \/ RevertResolves
  \/ HeightsResolve
  \/ FetchResolves
  \/ TransactionsResolve
  \/ TransactionsReject
  \/ SaveSnapshotResolves
  \/ DividendJobCompletes
  \/ \E lookup \in lookups : LookupCompletes(lookup)
  \/ \E chainSymbol \in chainSymbols : NewBlock(chainSymbol)
  \/ \E chainSymbol \in chainSymbols : ForkEvent(chainSymbol)

\* The node over two growing ledgers.
SpecNode == InitNode /\ [][NextNode]_vars

----------------------------------------------------------------------------
(* The interleaver and the pipeline: properties. *)

\* C3: over the run, absent fork recovery, the blocks are given to
\* processBlock in the order of their timestamps, a base block before a quote
\* block of its timestamp: a block that is started is never before the block
\* started last (the same block may be started again).
C3_BlocksStartedInTimestampOrder ==
  [][(lastStarted # NoBlock /\ lastStarted' # NoBlock /\ lastStarted' # lastStarted)
       => BlockBefore(lastStarted, lastStarted')]_vars

\* C4: after a fork recovery with a snapshot, until the next block is started,
\* the registry is empty, the book is the order book of the last snapshot, and
\* lastProcessedTimestamp is the timestamp of the base block at the height of
\* that snapshot.
C4_RecoveryRestoresSnapshot ==
  (recovered /\ driver.pc \in {"heights", "fetch"} /\ lastSnapshot # <<>>) =>
    /\ pendingTransfers = <<>>
    /\ getSnapshot(orderBook) = lastSnapshot[1].orderBook
    /\ lastProcessedTimestamp =
         BlockTimestamp(baseChainSymbol, lastSnapshot[1].chainHeights[baseChainSymbol])

\* C5: in passiveMode no outgoing transaction is authored: pendingTransfers
\* stays empty and execMultisigTransaction is never called.
C5_PassiveModeAuthorsNothing ==
  passiveMode => (pendingTransfers = <<>> /\ nextObj = 0)

\* C9: lastProcessedTimestamp advances only in a step in which processBlock
\* returns for a block, and then to the timestamp of that block.
C9_CursorAdvancesOnlyOnCompletion ==
  [][(/\ lastProcessedTimestamp # Unset
      /\ lastProcessedTimestamp' # Unset
      /\ lastProcessedTimestamp' > lastProcessedTimestamp)
       => (completed' # NoBlock /\ lastProcessedTimestamp' = completed'.timestamp)]_vars

\* C10: no failure in the handling of an intent or an order of a block escapes
\* its handler: no step of processBlock leaves a rejected promise unhandled.
C10_NoUnhandledRejection ==
  unhandled = 0

----------------------------------------------------------------------------
(* Two pipelines over the same blocks. *)

\* The blocks both pipelines are given, in the order of the interleaver: those
\* of the two ledgers above the heights of the loaded snapshot's cursor.
ReplicaBlocks ==
  LET baseChainBlocks ==
        [i \in 1..(MaxBaseHeight - StartHeights[baseChainSymbol]) |->
           Block(baseChainSymbol, StartHeights[baseChainSymbol] + i)]
      quoteChainBlocks ==
        [i \in 1..(MaxQuoteHeight - StartHeights[quoteChainSymbol]) |->
           Block(quoteChainSymbol, StartHeights[quoteChainSymbol] + i)]
  IN OrderedBlockList(baseChainBlocks,
       SelectSeq(quoteChainBlocks,
                 LAMBDA block : block.timestamp
                                  <= baseChainBlocks[Len(baseChainBlocks)].timestamp))

\* latestChainHeights when the block at an index is given to processBlock.
ReplicaHeights(index) ==
  [c \in chainSymbols |->
     LET hs == {ReplicaBlocks[i].height :
                  i \in {j \in 1..index : ReplicaBlocks[j].chainSymbol = c}}
     IN IF hs = {} THEN StartHeights[c] ELSE CHOOSE h \in hs : \A g \in hs : g <= h]

\* A pipeline after loadSnapshot.
LoadedReplica ==
  [NoReplica EXCEPT !.orderBook = setSnapshot(LoadedSnapshot.orderBook),
                    !.lastSnapshot = <<LoadedSnapshot>>]

StepOf(replica) == [replica EXCEPT !.emitted = {}, !.unhandled = 0]

\* processBlock of a pipeline up to its wait for the transactions of the block.
ReplicaBlockStart(r) ==
  /\ replicas[r].pc = "idle"
  /\ replicas[r].index < Len(ReplicaBlocks)
  /\ replicas' = [replicas EXCEPT ![r] =
       [BlockStart(StepOf(@), ReplicaBlocks[@.index + 1])
          EXCEPT !.index = @ + 1, !.pc = "transactions"]]
  /\ UNCHANGED <<registryVars, interleaverVars, intake>>

\* The snapshot tick of a pipeline, its wait for saveSnapshot included.
ReplicaSnapshot(node, block, heights) ==
  IF ~IsSnapshotTick(block) THEN node
  ELSE [(IF node.lastSnapshot # <<>> THEN SnapshotRefund(node, block) ELSE node)
          EXCEPT !.lastSnapshot = NewSnapshot(getSnapshot(node.orderBook), heights)]

\* processBlock of a pipeline from the transactions of the block to its end.
ReplicaTransactions(r) ==
  /\ replicas[r].pc = "transactions"
  /\ replicas' = [replicas EXCEPT ![r] =
       [ReplicaSnapshot(
          BlockTransactions(StepOf(@), ReplicaBlocks[@.index], ReplicaHeights(@.index)),
          ReplicaBlocks[@.index], ReplicaHeights(@.index))
        EXCEPT !.pc = "idle"]]
  /\ UNCHANGED <<registryVars, interleaverVars, intake>>

\* The dividend consumer of a pipeline takes a job.
ReplicaDividendJob(r) ==
  /\ replicas[r].dividendQueue # <<>>
  /\ LET event == Head(replicas[r].dividendQueue)
     IN replicas' = [replicas EXCEPT ![r] =
          DividendJob([StepOf(@) EXCEPT !.dividendQueue = Tail(@)], event,
                      dbHeight[event.chainSymbol])]
  /\ UNCHANGED <<registryVars, interleaverVars, intake>>

\* _getBlockAtHeight returns to an expiry callback of a pipeline.
ReplicaLookup(r, lookup) ==
  /\ lookup \in replicas[r].lookups
  /\ replicas' = [replicas EXCEPT ![r] =
       LookupRefund([StepOf(@) EXCEPT !.lookups = @ \ {lookup}], lookup,
                    dbHeight[lookup.chainSymbol])]
  /\ UNCHANGED <<registryVars, interleaverVars, intake>>

InitDeterminism ==
  /\ RegistryInit
  /\ requiredSignatureCount = [c \in chainSymbols |-> 2]
  /\ InterleaverInit
  /\ passiveMode = FALSE
  /\ orderBook = <<>>
  /\ lastSnapshot = <<>>
  /\ dbHeight = [c \in chainSymbols |-> MaxDbHeight(c)]
  /\ lastProcessedTimestamp = Unset
  /\ replicas = [r \in {1, 2} |-> LoadedReplica]
  /\ intake = <<>>

NextDeterminism ==
  \E r \in {1, 2} :
    \/ ReplicaBlockStart(r)
    \/ ReplicaTransactions(r)
    \/ ReplicaDividendJob(r)
    \/ \E lookup \in replicas[r].lookups : ReplicaLookup(r, lookup)

\* Two pipelines of one configuration, given the same blocks.
SpecDeterminism == InitDeterminism /\ [][NextDeterminism]_vars

\* The ids of the registry of a pipeline, in the order of their insertion.
RegistryIdsInOrder(replica) ==
  [i \in DOMAIN replica.pendingTransfers |-> replica.pendingTransfers[i].transaction.id]

ReplicaDone(replica) ==
  /\ replica.index = Len(ReplicaBlocks)
  /\ replica.pc = "idle"
  /\ replica.dividendQueue = <<>>
  /\ replica.lookups = {}

\* C2: two pipelines that were given the same blocks, and whose lookups and
\* dividend jobs have all completed, hold the same transaction ids in the same
\* insertion order, whatever the order in which these completed.
C2_SameAuthoringOrder ==
  (ReplicaDone(replicas[1]) /\ ReplicaDone(replicas[2]))
    => RegistryIdsInOrder(replicas[1]) = RegistryIdsInOrder(replicas[2])

----------------------------------------------------------------------------
(* The pipeline on its own: one block of any content, one dividend job of  *)
(* any contributions, one snapshot tick under any disable options.          *)

\* How many transfers to the wallet the block has at most.
MaxInboundTxns == 2

\* The inputs of a run. A block is a chain, the book before it and the fields
\* of its transfers (sender, amount, transferData); the book has the ask o1
\* of wallet w1 (one unit left at price 3) and the bid o2 of wallet w1. A
\* dividend job is the contributionData its scan of the ledger ends with. A
\* snapshot tick is the options dexDisabledFromHeight and dexMovedToAddress
\* of the base chain.
IntakeChoices ==
  LET other(c) == IF c = baseChainSymbol THEN quoteChainSymbol ELSE baseChainSymbol
      fields(c) ==
        {<<"w1", 100, <<other(c), "limit", "1", "w1t">>>>,
         <<"w1", 10, <<other(c), "limit", "3", "w1t">>>>,
         <<"w2", 100, <<other(c), "limit", "0", "w2t">>>>,
         <<"w2", 100, <<other(c), "limit", "", "w2t">>>>,
         <<"w2", 100, <<other(c), "limit", "x", "w2t">>>>,
         <<"w2", 10, <<other(c), "market", "w2t">>>>,
         <<"w2", 100, <<other(c), "market", "w2t">>>>,
         <<"w2", 11, <<other(c), "market", "w2t">>>>,
         <<"w1", 2, <<other(c), "close", "o1">>>>,
         <<"w2", 2, <<other(c), "close", "o1">>>>,
         <<"w1", 2, <<other(c), "close", "zz">>>>,
         <<"w1", 2, <<other(c), "close">>>>,
         <<"w3", 2 * MAX_SAFE_INTEGER, <<other(c), "limit", "1", "w3t">>>>,
         <<"w3", 5, <<other(c), "limit", "1", "w3t">>>>,
         <<"w3", 20, <<other(c), "bogus">>>>}
      o1 == [id |-> "o1", type |-> "limit", side |-> "ask",
             sourceChain |-> quoteChainSymbol, sourceWalletAddress |-> "w1",
             targetChain |-> baseChainSymbol, targetWalletAddress |-> "w1a",
             height |-> 2, expiryHeight |-> 9, price |-> 3, timestamp |-> 15,
             valueRemaining |-> 0, sizeRemaining |-> 1]
      o2 == [id |-> "o2", type |-> "limit", side |-> "bid",
             sourceChain |-> baseChainSymbol, sourceWalletAddress |-> "w1",
             targetChain |-> quoteChainSymbol, targetWalletAddress |-> "w1b",
             height |-> 2, expiryHeight |-> 9, price |-> 1, timestamp |-> 20,
             valueRemaining |-> 50, sizeRemaining |-> 0]
      contributions(n) ==
        {[i \in 1..n |-> [walletAddress |-> getAddressFromPublicKey(<<"k1", "k2">>[i]),
                          amount |-> a[i]]] : a \in [1..n -> {8, 100}]}
      blocks(c) ==
        {[kind |-> "block", chainSymbol |-> c, orderBook |-> book, fields |-> f] :
           book \in {<<>>, <<o1>>, <<o1, o2>>},
           f \in UNION {[1..n -> fields(c)] : n \in 0..MaxInboundTxns}}
  IN UNION {blocks(c) : c \in chainSymbols}
     \cup {[kind |-> "dividends", chainSymbol |-> quoteChainSymbol,
            contributionData |-> d] : d \in UNION {contributions(n) : n \in 0..2}}
     \cup {[kind |-> "snapshot", dexDisabledFromHeight |-> d, dexMovedToAddress |-> a] :
             d \in {Unset, 1, 2, 3}, a \in {Null, "m1"}}

\* The transfers of the block of a run, as _getInboundTransactions returns them.
IntakeTransactions(timestamp) ==
  [i \in DOMAIN intake[1].fields |->
     Inbound(<<"i1", "i2", "i3", "i4">>[i], intake[1].fields[i][1],
             intake[1].fields[i][2], timestamp, intake[1].fields[i][3])]

\* A node after load(), before the one step of the run: with the book of the
\* block, or else with the loaded snapshot.
InitIntake ==
  /\ RegistryInit
  /\ requiredSignatureCount = [c \in chainSymbols |-> 2]
  /\ InterleaverInit
  /\ intake \in {<<input>> : input \in IntakeChoices}
  /\ passiveMode \in BOOLEAN
  /\ dbHeight = [c \in chainSymbols |-> MaxDbHeight(c)]
  /\ lastProcessedTimestamp = Unset
  /\ replicas = [r \in {1, 2} |-> NoReplica]
  /\ IF intake[1].kind = "block"
     THEN orderBook = intake[1].orderBook /\ lastSnapshot = <<>>
     ELSE /\ orderBook = setSnapshot(LoadedSnapshot.orderBook)
          /\ lastSnapshot = <<LoadedSnapshot>>

\* processBlock for the block of the run: the block above the start height
\* of its chain.
ProcessIntakeBlock ==
  /\ intake[1].kind = "block"
  /\ completed = NoBlock
  /\ \E block \in {Block(intake[1].chainSymbol, StartHeights[intake[1].chainSymbol] + 1)} :
       \E heights \in {[latestChainHeights EXCEPT ![block.chainSymbol] = block.height]} :
         /\ SetNodeState(
              BlockOrders(
                DeleteOutbound(BlockStart(NodeState, block),
                               OutboundTransactions(block.chainSymbol, block.height)),
                ParsedOrders(orderBook, block.chainSymbol, block.height,
                             IntakeTransactions(block.timestamp)),
                block, heights))
         /\ latestChainHeights' = heights
         /\ completed' = block
  /\ UNCHANGED <<dbHeight, lastSeenChainHeight, progressingChains, isForked,
                 isInForkRecovery, lastProcessedTimestamp, driver, lastStarted,
                 recovered, processed, faults>>

\* The dividend consumer for the job of quote block 4, from the end of its
\* scan of the ledger.
ProcessIntakeDividends ==
  /\ intake[1].kind = "dividends"
  /\ completed = NoBlock
  /\ \E block \in {Block(intake[1].chainSymbol, StartHeights[intake[1].chainSymbol] + 1)} :
       \E event \in {Head(BlockStart(NodeState, block).dividendQueue)} :
         /\ SetNodeState(
              AuthorDividends(NodeState,
                              dividendFunction(event.chainSymbol, intake[1].contributionData),
                              event,
                              IF event.toHeight
                                   - chainOptions(event.chainSymbol).dividendHeightInterval < 1
                              THEN 1
                              ELSE event.toHeight
                                     - chainOptions(event.chainSymbol).dividendHeightInterval))
         /\ completed' = block
  /\ UNCHANGED <<latestChainHeights, dbHeight, lastSeenChainHeight, progressingChains,
                 isForked, isInForkRecovery, lastProcessedTimestamp, driver,
                 lastStarted, recovered, processed, faults>>

\* The snapshot tick of processBlock for base block 4, under the options of
\* the run, its wait for saveSnapshot included.
ProcessIntakeSnapshot ==
  /\ intake[1].kind = "snapshot"
  /\ completed = NoBlock
  /\ \E block \in {Block(baseChainSymbol, 2 * orderBookSnapshotFinality)} :
       /\ SetNodeState(
            [SnapshotRefundOptions(NodeState, block, intake[1].dexDisabledFromHeight,
                                   intake[1].dexMovedToAddress)
               EXCEPT !.lastSnapshot = NewSnapshot(getSnapshot(orderBook),
                                                   latestChainHeights)])
       /\ completed' = block
  /\ UNCHANGED <<latestChainHeights, dbHeight, lastSeenChainHeight, progressingChains,
                 isForked, isInForkRecovery, lastProcessedTimestamp, driver,
                 lastStarted, recovered, processed, faults>>

NextIntake ==
  \/ ProcessIntakeBlock
  \/ ProcessIntakeDividends
  \/ ProcessIntakeSnapshot

\* The pipeline given one input.
SpecIntake == InitIntake /\ [][NextIntake]_vars

----------------------------------------------------------------------------
(* The pipeline on its own: properties. *)

\* C11: no outgoing transaction is authored with an amount of 0 or less:
\* every transaction of the registry, trade payout, refund or dividend, has
\* a positive amount.
C11_AuthoredAmountsPositive ==
  \A i \in DOMAIN pendingTransfers : pendingTransfers[i].transaction.id[2] > 0

\* C12: at the snapshot tick whose prior snapshot covers a range of heights
\* that contains dexDisabledFromHeight, every limit order of the prior
\* snapshot is refunded: after the tick the registry holds for each of them a
\* refund with the memo r6, or r5 when dexMovedToAddress is set.
C12_SnapshotTickRefundsOrderBook ==
  (/\ intake[1].kind = "snapshot"
   /\ completed # NoBlock
   /\ ~passiveMode
   /\ intake[1].dexDisabledFromHeight # Unset
   /\ LoadedSnapshot.chainHeights[baseChainSymbol] >= intake[1].dexDisabledFromHeight
   /\ LoadedSnapshot.chainHeights[baseChainSymbol] - orderBookSnapshotFinality
        < intake[1].dexDisabledFromHeight)
    => \A order \in {LoadedSnapshot.orderBook.askLimitOrders[k] :
                       k \in DOMAIN LoadedSnapshot.orderBook.askLimitOrders}
                    \cup {LoadedSnapshot.orderBook.bidLimitOrders[k] :
                            k \in DOMAIN LoadedSnapshot.orderBook.bidLimitOrders} :
         \E i \in DOMAIN pendingTransfers :
           /\ pendingTransfers[i].transaction.id[5][1]
                = (IF intake[1].dexMovedToAddress # Null THEN "r5" ELSE "r6")
           /\ pendingTransfers[i].transaction.id[5][2] = order.id

----------------------------------------------------------------------------
(* The interleaver and the pipeline: forks and errors within a tick. *)

\* C13: when the fork flag is raised while a block is being processed, the
\* remaining phases of that block are abandoned: a step in which processBlock
\* goes on for the block under a raised flag changes neither the book nor the
\* snapshot and authors nothing.
C13_ForkAbandonsRemainingPhases ==
  [][(/\ isInForkRecovery
      /\ driver.pc \in {"transactions", "saveSnapshot"}
      /\ driver' # driver)
       => (/\ orderBook' = orderBook
           /\ lastSnapshot' = lastSnapshot
           /\ nextObj' = nextObj)]_vars

\* The blocks that a tick fetches when it starts at a cursor: on each chain
\* the blocks above the latest block at or before the cursor, and of the quote
\* blocks those up to the last base block.
FetchedAtCursor(timestamp, maxHeights) ==
  LET blocks(c) ==
        LatestSafeBlocks(c, maxHeights[c], HeightAtTimestamp(c, maxHeights[c], timestamp),
                         chainOptions(c).requiredConfirmations,
                         chainOptions(c).readMaxBlocks)
      baseChainBlocks == blocks(baseChainSymbol)
      quoteChainBlocks == blocks(quoteChainSymbol)
  IN {baseChainBlocks[i] : i \in DOMAIN baseChainBlocks}
     \cup {quoteChainBlocks[i] : i \in
             {j \in DOMAIN quoteChainBlocks :
                /\ baseChainBlocks # <<>>
                /\ quoteChainBlocks[j].timestamp
                     <= baseChainBlocks[Len(baseChainBlocks)].timestamp}}

\* C14: when processBlock throws for a block b, the tick stops without
\* starting a later block, the cursor is before the timestamp of b, and the
\* next tick, which starts at this cursor, fetches b again.
C14_ThrowStopsTickAndBlockIsRetried ==
  [][(faults'.errors > faults.errors)
       => (/\ driver'.pc = "idle"
           /\ lastStarted' = lastStarted
           /\ lastProcessedTimestamp' # Unset
           /\ lastProcessedTimestamp' < lastStarted.timestamp
           /\ lastStarted \in FetchedAtCursor(lastProcessedTimestamp', dbHeight'))]_vars

----------------------------------------------------------------------------
(* The pipeline on its own: the intents of a block. *)

\* The block of a run has been processed.
IntakeBlockDone == intake[1].kind = "block" /\ completed # NoBlock

\* The orders that processBlock made of the transfers of the block of a run.
IntakeOrders ==
  ParsedOrders(intake[1].orderBook, intake[1].chainSymbol, completed.height,
               IntakeTransactions(completed.timestamp))

\* Transfer i of the block is an intent of an operation that has passed the
\* tests before those of the operation: its amount is neither oversized nor
\* undersized, and it names a target wallet.
IsIntent(i, operation) ==
  /\ DataPart(intake[1].fields[i][3], 1) = operation
  /\ intake[1].fields[i][2] <= MAX_SAFE_INTEGER
  /\ intake[1].fields[i][2] >= chainOptions(intake[1].chainSymbol).minOrderAmount
  /\ DataPart(intake[1].fields[i][3], IF operation = "limit" THEN 3 ELSE 2)
       \notin {Null, ""}

\* C15: a market intent that arrives while the opposite side of the book is
\* empty (no ask for a base-chain intent, no bid for a quote-chain one) is
\* classified invalid with the reason 'Too small to convert', so that it is
\* not passed to addOrder.
C15_MarketOnEmptyBookIsInvalid ==
  IntakeBlockDone =>
    \A i \in DOMAIN intake[1].fields :
      (/\ IsIntent(i, "market")
       /\ ~HasSide(intake[1].orderBook,
                   IF intake[1].chainSymbol = baseChainSymbol THEN "ask" ELSE "bid"))
        => (/\ IntakeOrders[i].type = "invalid"
            /\ IntakeOrders[i].reason = "Too small to convert")

\* C16: a limit intent is admitted only if its price field parses to a finite
\* number above 0, and with any other price field it is classified invalid
\* with the reason 'Invalid price'; hence every limit order of the book has a
\* price above 0.
C16_LimitPricePositive ==
  IntakeBlockDone =>
    /\ \A i \in DOMAIN intake[1].fields :
         (/\ IsIntent(i, "limit")
          /\ \/ NumberOf(DataPart(intake[1].fields[i][3], 2)).isNaN
             \/ NumberOf(DataPart(intake[1].fields[i][3], 2)).value <= 0)
           => (/\ IntakeOrders[i].type = "invalid"
               /\ IntakeOrders[i].reason = "Invalid price")
    /\ \A k \in DOMAIN orderBook :
         orderBook[k].type = "limit" => orderBook[k].price > 0

\* C17: in non-passive mode every transfer of an amount above
\* MAX_SAFE_INTEGER results in an r1 refund to its sender on the chain of the
\* block, of the amount less the exchangeFeeBase of that chain.
C17_OversizedIsRefunded ==
  (IntakeBlockDone /\ ~passiveMode) =>
    \A i \in DOMAIN intake[1].fields :
      intake[1].fields[i][2] > MAX_SAFE_INTEGER
        => \E k \in DOMAIN pendingTransfers :
             /\ pendingTransfers[k].transaction.id[1] = intake[1].chainSymbol
             /\ pendingTransfers[k].transaction.id[2]
                  = intake[1].fields[i][2]
                      - chainOptions(intake[1].chainSymbol).exchangeFeeBase
             /\ pendingTransfers[k].transaction.id[3] = intake[1].fields[i][1]
             /\ pendingTransfers[k].transaction.id[5][1] = "r1"
             /\ pendingTransfers[k].transaction.id[5][2] = IntakeOrders[i].id

\* Transfer i of the block is a close of the order, sent on the source chain
\* of the order from its source wallet address.
IsCloseBy(i, order) ==
  /\ DataPart(intake[1].fields[i][3], 1) = "close"
  /\ DataPart(intake[1].fields[i][3], 2) = order.id
  /\ intake[1].chainSymbol = order.sourceChain
  /\ intake[1].fields[i][1] = order.sourceWalletAddress

\* The orders that were open before the block of a run.
IntakeOpenOrders == {intake[1].orderBook[k] : k \in DOMAIN intake[1].orderBook}

\* C18: an open order is removed by closeOrder only in response to a close
\* sent on its own source chain from its own source wallet address, and a
\* close with a missing or unknown order id, from the other chain or from
\* another wallet is classified invalid and leaves the book unchanged: such a
\* close is parsed as invalid; in a block that adds no order to the book,
\* every open order without a close of its own is still in the book; and
\* every authored r3 refund answers a close of the order by its owner.
C18_CloseOnlyByOwnerOnOwnChain ==
  IntakeBlockDone =>
    /\ \A i \in DOMAIN intake[1].fields :
         (/\ DataPart(intake[1].fields[i][3], 1) = "close"
          /\ ~\E order \in IntakeOpenOrders : IsCloseBy(i, order))
           => IntakeOrders[i].type = "invalid"
    /\ (\A i \in DOMAIN intake[1].fields : IntakeOrders[i].type \notin {"limit", "market"})
         => /\ \A order \in IntakeOpenOrders :
                 (~\E i \in DOMAIN intake[1].fields : IsCloseBy(i, order))
                   => \E k \in DOMAIN orderBook : orderBook[k] = order
            /\ \A k \in DOMAIN orderBook : orderBook[k] \in IntakeOpenOrders
    /\ \A k \in DOMAIN pendingTransfers :
         pendingTransfers[k].transaction.id[5][1] = "r3"
           => \E i \in DOMAIN intake[1].fields, order \in IntakeOpenOrders :
                /\ IsCloseBy(i, order)
                /\ pendingTransfers[k].transaction.id[5][2] = order.id
                /\ pendingTransfers[k].transaction.id[5][3] = IntakeOrders[i].id
                /\ pendingTransfers[k].transaction.id[3] = order.sourceWalletAddress

\* A block with a close of the ask o1 by another wallet and a close of o1 by
\* its owner has been processed: o1 has left the book, the bid o2 is in it,
\* and the registry holds the r1 refund of the first close and the r3 refund
\* of the order.
C18_Witness ==
  /\ IntakeBlockDone
  /\ ~passiveMode
  /\ Len(intake[1].orderBook) = 2
  /\ Len(intake[1].fields) = 2
  /\ intake[1].fields[1][1] # intake[1].orderBook[1].sourceWalletAddress
  /\ DataPart(intake[1].fields[1][3], 2) = intake[1].orderBook[1].id
  /\ IntakeOrders[1].type = "invalid"
  /\ IsCloseBy(2, intake[1].orderBook[1])
  /\ orderBook = <<intake[1].orderBook[2]>>
  /\ Len(pendingTransfers) = 2
  /\ pendingTransfers[1].transaction.id[5][1] = "r1"
  /\ pendingTransfers[2].transaction.id[5][1] = "r3"

\* Transfer i of the block is the only one that is parsed as an order or as a
\* close, so that its order meets the book as it was before the block.
IsOnlyOrder(i) ==
  /\ IntakeOrders[i].type \in {"limit", "market"}
  /\ \A j \in DOMAIN intake[1].fields \ {i} :
       IntakeOrders[j].type \notin {"limit", "market", "close"}

\* What addOrder returns for the order of transfer i, the only order of the block.
IntakeMatch(i) == addOrder(intake[1].orderBook, IntakeOrders[i]).result

\* C19: in non-passive mode, for every market order handed to addOrder that is
\* left with a rest (valueRemaining of a bid, sizeRemaining of an ask) above
\* the exchangeFeeBase of its source chain, an r4 refund is authored to its
\* sender on the source chain, whatever was matched and whatever the payout
\* of the taker after fees.
C19_MarketRestIsRefunded ==
  (IntakeBlockDone /\ ~passiveMode) =>
    \A i \in DOMAIN intake[1].fields :
      (/\ IsOnlyOrder(i)
       /\ IntakeOrders[i].type = "market"
       /\ Remaining(IntakeMatch(i).taker)
            > chainOptions(intake[1].chainSymbol).exchangeFeeBase)
        => \E k \in DOMAIN pendingTransfers :
             /\ pendingTransfers[k].transaction.id[1] = intake[1].chainSymbol
             /\ pendingTransfers[k].transaction.id[3] = intake[1].fields[i][1]
             /\ pendingTransfers[k].transaction.id[5][1] = "r4"
             /\ pendingTransfers[k].transaction.id[5][2] = IntakeOrders[i].id

\* C20: in non-passive mode, for every maker of a match with takeSize > 0
\* whose own amount after fees is above 0, a t2 payout of that amount is
\* authored to the maker on its target chain, whether or not the amount of
\* the taker after fees is above 0.
C20_MakerIsPaidWhateverTheTaker ==
  (IntakeBlockDone /\ ~passiveMode) =>
    \A i \in DOMAIN intake[1].fields :
      (IsOnlyOrder(i) /\ IntakeMatch(i).takeSize > 0)
        => \A m \in DOMAIN IntakeMatch(i).makers :
             \A makerOrder \in {IntakeMatch(i).makers[m].order} :
               \A makerAmount \in
                   {AfterFees(makerOrder.targetChain,
                              IF makerOrder.targetChain = baseChainSymbol
                              THEN IntakeMatch(i).makers[m].lastValueTaken
                              ELSE IntakeMatch(i).makers[m].lastSizeTaken)} :
                 makerAmount > 0
                   => \E k \in DOMAIN pendingTransfers :
                        /\ pendingTransfers[k].transaction.id[1] = makerOrder.targetChain
                        /\ pendingTransfers[k].transaction.id[2] = makerAmount
                        /\ pendingTransfers[k].transaction.id[3]
                             = makerOrder.targetWalletAddress
                        /\ pendingTransfers[k].transaction.id[5][1] = "t2"
                        /\ pendingTransfers[k].transaction.id[5][3] = makerOrder.id

----------------------------------------------------------------------------
(* The pipeline on its own: the payout of the taker. *)

\* What the taker of the match of transfer i has taken, in the unit of its
\* target chain: takeValue on the base chain, takeSize on the quote chain.
IntakeTaken(i) ==
  IF IntakeMatch(i).taker.targetChain = baseChainSymbol
  THEN IntakeMatch(i).takeValue ELSE IntakeMatch(i).takeSize

\* Registry entry k is the t1 payout of the order of transfer i.
IsTakerPayout(k, i) ==
  /\ pendingTransfers[k].transaction.id[5][1] = "t1"
  /\ pendingTransfers[k].transaction.id[5][3] = IntakeOrders[i].id

\* C21 as stated: the amount of the t1 payout of a match is
\* floor(x * (1 - exchangeFeeRate) - exchangeFeeBase), x being takeValue when
\* the target chain of the taker is the base chain and takeSize otherwise,
\* with the fees of that chain, and its timestamp is order.timestamp + 1.
C21_TakerAmountRateFirst ==
  IntakeBlockDone =>
    \A i \in DOMAIN intake[1].fields :
      IsOnlyOrder(i) =>
        \A k \in DOMAIN pendingTransfers :
          IsTakerPayout(k, i) =>
            /\ pendingTransfers[k].transaction.id[2]
                 = AfterFeesRateFirst(IntakeMatch(i).taker.targetChain, IntakeTaken(i))
            /\ pendingTransfers[k].transaction.id[4] = IntakeOrders[i].timestamp + 1

\* C21, amended: the amount of the t1 payout of a match is
\* floor((x - exchangeFeeBase) * (1 - exchangeFeeRate)): the base fee is
\* subtracted first and the rate is taken of the rest; the payout goes to the
\* target wallet of the taker on its target chain with the timestamp
\* order.timestamp + 1, and in non-passive mode it is authored whenever
\* something was matched and this amount is above 0.
C21_TakerAmountBaseFeeFirst ==
  IntakeBlockDone =>
    \A i \in DOMAIN intake[1].fields :
      IsOnlyOrder(i) =>
        \A x \in {IntakeTaken(i)}, chain \in {IntakeMatch(i).taker.targetChain} :
          \A amount \in
              {FloorDiv((x - chainOptions(chain).exchangeFeeBase)
                          * (chainOptions(chain).exchangeFeeRateDen
                               - chainOptions(chain).exchangeFeeRateNum),
                        chainOptions(chain).exchangeFeeRateDen)} :
            /\ \A k \in DOMAIN pendingTransfers :
                 IsTakerPayout(k, i) =>
                   /\ pendingTransfers[k].transaction.id[1] = chain
                   /\ pendingTransfers[k].transaction.id[2] = amount
                   /\ pendingTransfers[k].transaction.id[3]
                        = IntakeMatch(i).taker.targetWalletAddress
                   /\ pendingTransfers[k].transaction.id[4] = IntakeOrders[i].timestamp + 1
            /\ (~passiveMode /\ IntakeMatch(i).takeSize > 0 /\ amount > 0)
                 => \E k \in DOMAIN pendingTransfers : IsTakerPayout(k, i)

\* A market ask of 11 has taken the value 11 of the bid o2 and is paid 9 on
\* the base chain, where floor(11 * 0.9 - 1) is 8.
C21_Witness ==
  /\ IntakeBlockDone
  /\ \E i \in DOMAIN intake[1].fields :
       /\ IsOnlyOrder(i)
       /\ IntakeTaken(i) = 11
       /\ \E k \in DOMAIN pendingTransfers :
            /\ IsTakerPayout(k, i)
            /\ pendingTransfers[k].transaction.id[2] = 9
            /\ AfterFeesRateFirst(IntakeMatch(i).taker.targetChain, IntakeTaken(i)) = 8

----------------------------------------------------------------------------
(* The queries of the API (_execQueryAgainstIterator). An item is a record  *)
(* with the fields id, price and wallet; a query is the record of after,    *)
(* before (Null when absent), limit (its typeof and its value), sort (the   *)
(* parts of sort.split(':'), <<>> when absent) and filterMap, the function  *)
(* from the other fields of the query to their values.                      *)

\* this.options of the queries.
apiOptions == [apiDefaultPageLimit |-> 1, apiMaxPageLimit |-> 2, apiMaxFilterFields |-> 1]

\* How many items the source of a query has at most.
MaxItems == 3

\* filterFields.every(field => String(item[field]) === String(filterMap[field]));
\* the values of filterMap are strings, String of a price is its numeral, and
\* String of a field that the item does not have is 'undefined'.
ItemMatchesFilter(item, filterMap) ==
  \A field \in DOMAIN filterMap :
    filterMap[field] =
      (IF field = "price" THEN <<"1", "2", "3">>[item.price]
       ELSE IF field \in DOMAIN item THEN item[field]
       ELSE "undefined")

\* The loop over the iterator with after, and without after or before
\* (isCapturing from the start): an item that matches is pushed while
\* capturing, the item of the id after starts the capture, and the loop
\* breaks once result.length >= limit.
RECURSIVE Capture(_, _, _, _, _, _)
Capture(items, filterMap, after, limit, isCapturing, result) ==
  IF items = <<>> THEN result
  ELSE
    \* the result after this item
    LET pushed == IF isCapturing /\ ItemMatchesFilter(Head(items), filterMap)
                  THEN Append(result, Head(items)) ELSE result
    IN IF Len(pushed) >= limit THEN pushed
       ELSE Capture(Tail(items), filterMap, after, limit,
                    isCapturing \/ Head(items).id = after, pushed)

\* The loop over the iterator with before: the items that match are kept
\* until the item of the id before, and the last limit of them are the
\* result (slice(firstIndex, length) with firstIndex at least 0); without
\* such an item the result is empty.
RECURSIVE PreviousItems(_, _, _, _, _)
PreviousItems(items, filterMap, before, limit, previousItems) ==
  IF items = <<>> THEN <<>>
  ELSE IF Head(items).id = before
  THEN SubSeq(previousItems,
              (IF Len(previousItems) - limit < 0 THEN 0
               ELSE Len(previousItems) - limit) + 1,
              Len(previousItems))
  ELSE PreviousItems(Tail(items), filterMap, before, limit,
                     IF ItemMatchesFilter(Head(items), filterMap)
                     THEN Append(previousItems, Head(items)) ELSE previousItems)

\* _execQueryAgainstIterator(query, sourceIterator, item => item.id): what it
\* returns, or the name of the error it throws. The sort is by price, or by
\* a field that no item has, which leaves the order as it is.
execQueryAgainstIterator(query, sourceIterator) ==
  LET InvalidQueryError == [threw |-> TRUE, name |-> "InvalidQueryError", result |-> <<>>]
      Returns(result) == [threw |-> FALSE, name |-> Null, result |-> result]
      limit == IF query.limit.type = "undefined" THEN apiOptions.apiDefaultPageLimit
               ELSE query.limit.value
      sortField == IF query.sort = <<>> THEN "" ELSE query.sort[1]
      sortOrder == IF Len(query.sort) = 2 /\ query.sort[2] = "desc" THEN -1 ELSE 1
      Before(j, i) ==
        \/ sortOrder * sourceIterator[j].price < sortOrder * sourceIterator[i].price
        \/ sourceIterator[j].price = sourceIterator[i].price /\ j < i
      rank(i) == Cardinality({j \in DOMAIN sourceIterator : Before(j, i)})
      iterator ==
        IF sortField = "price"
        THEN [k \in DOMAIN sourceIterator |->
                sourceIterator[CHOOSE i \in DOMAIN sourceIterator : rank(i) = k - 1]]
        ELSE sourceIterator
  IN IF Cardinality(DOMAIN query.filterMap) > apiOptions.apiMaxFilterFields
     THEN InvalidQueryError
     ELSE IF query.limit.type \notin {"undefined", "number"} THEN InvalidQueryError
     ELSE IF limit > apiOptions.apiMaxPageLimit THEN InvalidQueryError
     ELSE IF Len(query.sort) = 2 /\ query.sort[2] \notin {"asc", "desc"}
     THEN InvalidQueryError
     ELSE IF query.after # Null
     THEN Returns(Capture(iterator, query.filterMap, query.after, limit, FALSE, <<>>))
     ELSE IF query.before # Null
     THEN Returns(PreviousItems(iterator, query.filterMap, query.before, limit, <<>>))
     ELSE Returns(Capture(iterator, query.filterMap, Null, limit, TRUE, <<>>))

\* The queries and the sources of a run: every limit from 0 to one above
\* apiMaxPageLimit, absent, or a string; after and before absent, the id of
\* an item or an unknown id; the sorts by price, an unknown order, no sort;
\* filters of no, one and two fields; every source of different items.
QueryChoices ==
  LET items == {[id |-> "a", price |-> 3, wallet |-> "w1"],
                [id |-> "b", price |-> 1, wallet |-> "w1"],
                [id |-> "c", price |-> 3, wallet |-> "w2"]}
      sources == UNION {{s \in [1..n -> items] : \A i, j \in 1..n : s[i] = s[j] => i = j} :
                          n \in 0..MaxItems}
      limits == {[type |-> "undefined", value |-> 0], [type |-> "string", value |-> 2]}
                  \cup {[type |-> "number", value |-> n] :
                          n \in 0..apiOptions.apiMaxPageLimit + 1}
      filterMaps == {<<>>, [f \in {"price"} |-> "3"], [f \in {"wallet"} |-> "w1"],
                     [f \in {"zz"} |-> "x"],
                     [f \in {"price", "wallet"} |-> IF f = "price" THEN "3" ELSE "w1"]}
  IN {[kind |-> "query", sourceIterator |-> source,
       query |-> [after |-> after, before |-> before, limit |-> limit, sort |-> sort,
                  filterMap |-> filterMap]] :
        source \in sources, after \in {Null, "a", "zz"}, before \in {Null, "c"},
        limit \in limits,
        sort \in {<<>>, <<"price">>, <<"price", "desc">>, <<"price", "up">>},
        filterMap \in filterMaps}

\* A node that is asked one query.
InitQuery ==
  /\ RegistryInit
  /\ requiredSignatureCount = [c \in chainSymbols |-> 2]
  /\ InterleaverInit
  /\ intake \in {<<input>> : input \in QueryChoices}
  /\ passiveMode = FALSE
  /\ orderBook = <<>>
  /\ lastSnapshot = <<>>
  /\ dbHeight = StartHeights
  /\ lastProcessedTimestamp = Unset
  /\ replicas = [r \in {1, 2} |-> NoReplica]

\* An action of the API calls _execQueryAgainstIterator and returns.
ExecQuery ==
  /\ Len(intake) = 1
  /\ intake' = Append(intake,
                      execQueryAgainstIterator(intake[1].query, intake[1].sourceIterator))
  /\ UNCHANGED <<registryVars, interleaverVars, replicas>>

\* The API given one query.
SpecQuery == InitQuery /\ [][ExecQuery]_vars

----------------------------------------------------------------------------
(* The queries of the API: properties. *)

\* C22: a query that returns has at most limit items, apiDefaultPageLimit
\* when limit is absent, whatever the limit accepted and whatever after,
\* before, sort and the filters; a limit above apiMaxPageLimit, or more than
\* apiMaxFilterFields filter fields, is an InvalidQueryError.
C22_AtMostLimitItems ==
  Len(intake) = 2 =>
    /\ ~intake[2].threw
         => Len(intake[2].result)
              <= (IF intake[1].query.limit.type = "undefined"
                  THEN apiOptions.apiDefaultPageLimit
                  ELSE intake[1].query.limit.value)
    /\ (\/ Cardinality(DOMAIN intake[1].query.filterMap) > apiOptions.apiMaxFilterFields
        \/ /\ intake[1].query.limit.type = "number"
           /\ intake[1].query.limit.value > apiOptions.apiMaxPageLimit)
         => (intake[2].threw /\ intake[2].name = "InvalidQueryError"
               /\ intake[2].result = <<>>)

----------------------------------------------------------------------------
(* The signature coordinator: signatures that are dropped. *)

\* A signature the handler is to drop: of a transaction id the registry does
\* not hold, already in processedSignatureSet of the entry, by a key that is
\* not a member of the wallet of the target chain, or not a signature of the
\* transaction by the key it names.
IsToBeDropped(signatureData) ==
  \/ ~MapHas(pendingTransfers, signatureData.transactionId)
  \/ \E i \in DOMAIN pendingTransfers :
       /\ pendingTransfers[i].transaction.id = signatureData.transactionId
       /\ \/ signatureData.signature \in pendingTransfers[i].processedSignatureSet
          \/ signatureData.publicKey \notin members(pendingTransfers[i].targetChain)
          \/ ~verifyData(pendingTransfers[i].transaction.id, signatureData.signature,
                         signatureData.publicKey)

\* C23: a signature from a peer that names an unknown transaction, repeats a
\* signature of processedSignatureSet, comes from a key outside the wallet's
\* members or does not verify leaves the registry as it was, is not broadcast
\* again and schedules or makes no post.
C23_BadSignatureIsDropped ==
  [][\A signatureData \in SignatureDataSet :
       (NetworkEvent(signatureData) /\ IsToBeDropped(signatureData)) =>
         /\ pendingTransfers' = pendingTransfers
         /\ emitted' = {}
         /\ timers' = timers
         /\ posted' = posted
         /\ ~lastResult'.isAccepted]_vars

\* The handler has just dropped a signature for a transaction that has two of
\* three signatures.
C23_Witness ==
  /\ lastResult.ran
  /\ ~lastResult.isAccepted
  /\ emitted = {}
  /\ \E i \in DOMAIN pendingTransfers :
       /\ pendingTransfers[i].transaction.id = PayoutId
       /\ Len(pendingTransfers[i].transaction.signatures) = 2
       /\ requiredSignatureCount[pendingTransfers[i].targetChain] = 3

----------------------------------------------------------------------------
(* The interleaver: the blocks of a tick. *)

\* What _getLatestSafeBlocks returns for a chain when the fetch of the tick
\* resolves.
FetchedBlocks(chainSymbol) ==
  LatestSafeBlocks(chainSymbol, dbHeight[chainSymbol], latestChainHeights[chainSymbol],
                   chainOptions(chainSymbol).requiredConfirmations,
                   chainOptions(chainSymbol).readMaxBlocks)

OtherChain(chainSymbol) ==
  IF chainSymbol = baseChainSymbol THEN quoteChainSymbol ELSE baseChainSymbol

\* The fetch of a tick resolves and orderedBlockList is built.
ListIsBuilt == driver.pc = "fetch" /\ driver'.pc = "transactions"

\* C24: no block of the list a tick hands to processBlock has a timestamp
\* above that of the last block fetched for the other chain in the tick, be
\* it a base block or a quote block.
C24_NoBlockPastOtherChainsLastBlock ==
  [][ListIsBuilt =>
       \A i \in DOMAIN driver'.orderedBlockList :
         \E block \in {driver'.orderedBlockList[i]} :
           \E others \in {FetchedBlocks(OtherChain(block.chainSymbol))} :
             block.timestamp <= others[Len(others)].timestamp]_vars

\* The half of it the filter of the quote blocks gives.
QuoteBlocksNotPastBaseChainsLastBlock ==
  [][ListIsBuilt =>
       \A i \in DOMAIN driver'.orderedBlockList :
         \E block \in {driver'.orderedBlockList[i]} :
           \E others \in {FetchedBlocks(baseChainSymbol)} :
             block.chainSymbol = quoteChainSymbol =>
               block.timestamp <= others[Len(others)].timestamp]_vars

----------------------------------------------------------------------------
(* The fetch of a tick on its own: the ledgers, the heights at the cursor   *)
(* and the options requiredConfirmations and readMaxBlocks of each chain    *)
(* are the input, the lists of processBlockchains the output.               *)

MaxLedgerHeight == 3
MaxConfirmations == 1
MaxReadBlocks == 2

FetchChoices ==
  [maxHeight : [chainSymbols -> 1..MaxLedgerHeight],
   fromHeight : [chainSymbols -> 0..(MaxLedgerHeight - 1)],
   requiredConfirmations : [chainSymbols -> 0..MaxConfirmations],
   readMaxBlocks : [chainSymbols -> 1..MaxReadBlocks]]

InitFetch ==
  /\ RegistryInit
  /\ requiredSignatureCount = [c \in chainSymbols |-> 2]
  /\ InterleaverInit
  /\ passiveMode = FALSE
  /\ orderBook = <<>>
  /\ lastSnapshot = <<>>
  /\ dbHeight = StartHeights
  /\ lastProcessedTimestamp = Unset
  /\ replicas = [r \in {1, 2} |-> NoReplica]
  /\ \E choice \in FetchChoices :
       /\ \A c \in chainSymbols : choice.fromHeight[c] <= choice.maxHeight[c]
       /\ intake = <<choice>>

\* processBlockchains from the fetch to the sorted list: what each chain
\* returned, and the blocks the loop hands to processBlock (none when the tick
\* returns 0).
FetchedLists(choice) ==
  LET blocks(c) == LatestSafeBlocks(c, choice.maxHeight[c], choice.fromHeight[c],
                                    choice.requiredConfirmations[c],
                                    choice.readMaxBlocks[c])
      baseChainBlocks == blocks(baseChainSymbol)
      quoteChainBlocks == blocks(quoteChainSymbol)
      safeQuoteChainBlocks ==
        IF baseChainBlocks = <<>> THEN <<>>
        ELSE SelectSeq(quoteChainBlocks,
                       LAMBDA block :
                         block.timestamp <= baseChainBlocks[Len(baseChainBlocks)].timestamp)
  IN [fetched |-> [c \in chainSymbols |-> blocks(c)],
      orderedBlockList |->
        IF baseChainBlocks = <<>> \/ safeQuoteChainBlocks = <<>> THEN <<>>
        ELSE OrderedBlockList(baseChainBlocks, safeQuoteChainBlocks)]

FetchBlocks ==
  /\ Len(intake) = 1
  /\ intake' = Append(intake, FetchedLists(intake[1]))
  /\ UNCHANGED <<registryVars, interleaverVars, replicas>>

SpecFetch == InitFetch /\ [][FetchBlocks]_vars

\* C25: every block the loop hands to processBlock has a height of at most
\* the maximum height of its ledger at the fetch less requiredConfirmations of
\* its chain, and a tick fetches at most readMaxBlocks blocks of a chain.
C25_OnlyConfirmedBlocksAtMostReadMaxBlocks ==
  Len(intake) = 2 =>
    /\ \A i \in DOMAIN intake[2].orderedBlockList :
         \E block \in {intake[2].orderedBlockList[i]} :
           /\ block.height > intake[1].fromHeight[block.chainSymbol]
           /\ block.height <= intake[1].maxHeight[block.chainSymbol]
                                - intake[1].requiredConfirmations[block.chainSymbol]
    /\ \A c \in chainSymbols :
         /\ Len(intake[2].fetched[c]) <= intake[1].readMaxBlocks[c]
         /\ Cardinality({i \in DOMAIN intake[2].orderedBlockList :
                           intake[2].orderedBlockList[i].chainSymbol = c})
              <= intake[1].readMaxBlocks[c]

\* With one confirmation required on each chain and ledgers of height 3 read
\* from height 1, the list is the one block of each chain at height 2, though
\* readMaxBlocks is 2.
C25_Witness ==
  /\ Len(intake) = 2
  /\ intake[1].maxHeight = [c \in chainSymbols |-> 3]
  /\ intake[1].fromHeight = [c \in chainSymbols |-> 1]
  /\ intake[1].requiredConfirmations = [c \in chainSymbols |-> 1]
  /\ intake[1].readMaxBlocks = [c \in chainSymbols |-> 2]
  /\ Len(intake[2].orderedBlockList) = 2
  /\ \A i \in DOMAIN intake[2].orderedBlockList :
       intake[2].orderedBlockList[i].height = 2

----------------------------------------------------------------------------
(* The interleaver during a fork. *)

\* C26: while isForked is set, a call of processBlockchains returns at once: no
\* tick gets past its first test, no block is handed to processBlock, and the
\* interleaver leaves the book, the registry and lastProcessedTimestamp alone.
C26_NoTickWhileForked ==
  [][(isForked /\ driver.pc = "idle") =>
       /\ ~ProcessBlockchains
       /\ driver' = driver
       /\ lastStarted' = lastStarted
       /\ completed' = NoBlock
       /\ (dividendQueue' = dividendQueue /\ lookups' = lookups) =>
            /\ orderBook' = orderBook
            /\ pendingTransfers' = pendingTransfers
            /\ lastProcessedTimestamp' = lastProcessedTimestamp]_vars

\* A chain has stopped progressing while the interleaver waits between two
\* ticks, and both ledgers hold blocks past the cursor.
C26_Witness ==
  /\ isForked
  /\ driver.pc = "idle"
  /\ lastProcessedTimestamp # Unset
  /\ \A c \in chainSymbols : BlockTimestamp(c, dbHeight[c]) > lastProcessedTimestamp

----------------------------------------------------------------------------
(* The rebroadcast sweep on its own: a registry of transfers authored at    *)
(* given heights, some of them with a second signature, and one block.      *)

MaxSweepTransfers == 2
MaxSweepHeight == 3

\* The transfers of the registry: the target chain, the height of the target
\* chain at the authoring (or none), and whether a peer has signed.
SweepTransferChoices ==
  [targetChain : chainSymbols,
   height : (0..(MaxSweepHeight - 1)) \cup {NoHeight},
   signed : BOOLEAN]

SweepChoices ==
  [transfers : UNION {[1..n -> SweepTransferChoices] : n \in 0..MaxSweepTransfers},
   chainSymbol : chainSymbols,
   isLastBlock : BOOLEAN]

SweepMessage(k) == <<"r1", k, "Invalid order">>

\* The registry after the authorings of the transfers, each followed by the
\* signature of the member k2 where a peer has signed.
RECURSIVE SweepRegistry(_, _, _)
SweepRegistry(map, transfers, k) ==
  IF k > Len(transfers) THEN map
  ELSE LET transactionData == [AuthoredData(0) EXCEPT !.height = transfers[k].height]
           id == TransactionId(transfers[k].targetChain, transactionData, SweepMessage(k))
           authored == execMultisigTransaction(map, transfers[k].targetChain,
                                               transactionData, SweepMessage(k), k)
           signed == processSignature(authored, [c \in chainSymbols |-> 2],
                                      [transactionId |-> id,
                                       signature |-> signData(id, "k2"),
                                       publicKey |-> "k2"]).map
       IN SweepRegistry(IF transfers[k].signed THEN signed ELSE authored,
                        transfers, k + 1)

\* The block of the sweep is the block at MaxSweepHeight of its chain.
InitSweep ==
  /\ \E choice \in SweepChoices :
       /\ intake = <<choice>>
       /\ pendingTransfers = SweepRegistry(<<>>, choice.transfers, 1)
       /\ nextObj = Len(choice.transfers) + 1
  /\ latestChainHeights = [c \in chainSymbols |-> MaxSweepHeight - 1]
  /\ requiredSignatureCount = [c \in chainSymbols |-> 2]
  /\ timers = {}
  /\ posted = {}
  /\ emitted = {}
  /\ lastResult = NoResult
  /\ lastExpired = 0
  /\ InterleaverInit
  /\ passiveMode = FALSE
  /\ orderBook = <<>>
  /\ lastSnapshot = <<>>
  /\ dbHeight = StartHeights
  /\ lastProcessedTimestamp = Unset
  /\ replicas = [r \in {1, 2} |-> NoReplica]

\* processBlock for a block without transactions.
SweepBlock ==
  ProcessBlockRegistry(intake[1].chainSymbol, intake[1].isLastBlock, {}, <<>>,
                       nextObj, MaxSweepHeight)

\* The block has been processed.
SweepBlockDone == latestChainHeights[intake[1].chainSymbol] = MaxSweepHeight

SpecSweep == InitSweep /\ [][SweepBlock]_vars

\* A transfer the sweep is to act on at a block of chain c at height h.
IsInWindow(transfer, c, h) ==
  /\ transfer.targetChain = c
  /\ transfer.height # NoHeight
  /\ h - transfer.height > rebroadcastAfterHeight(c)
  /\ h - transfer.height < rebroadcastUntilHeight(c)

\* C27: on a block flagged isLastBlock of chain c at height h, every transfer
\* to c whose h - height lies strictly between rebroadcastAfterHeight and
\* rebroadcastUntilHeight is posted again if it isReady, and else the node's
\* own signature, signatures[0], is broadcast again; the other transfers give
\* no post and no broadcast, and the registry is left as it was.
C27_SweepRepostsOrRebroadcastsInWindow ==
  (SweepBlockDone /\ intake[1].isLastBlock) =>
    /\ \A i \in DOMAIN pendingTransfers :
         \E transfer \in {pendingTransfers[i]} :
           \E isPosted \in {\E p \in posted : p.obj = transfer.transaction.obj},
              isBroadcast \in {\E b \in emitted : b.transactionId = transfer.transaction.id} :
             IF IsInWindow(transfer, intake[1].chainSymbol,
                           latestChainHeights[intake[1].chainSymbol])
             THEN IF transfer.isReady
                  THEN isPosted /\ ~isBroadcast
                  ELSE /\ ~isPosted
                       /\ [transactionId |-> transfer.transaction.id,
                           signature |-> signData(transfer.transaction.id, NodeKey),
                           publicKey |-> NodeKey] \in emitted
                       /\ transfer.transaction.signatures[1]
                            = signData(transfer.transaction.id, NodeKey)
             ELSE ~isPosted /\ ~isBroadcast
    /\ \A p \in posted : p.via = "sweep"
    /\ Cardinality(emitted) <= Len(pendingTransfers)
    /\ pendingTransfers = SweepRegistry(<<>>, intake[1].transfers, 1)

\* The sweep at height 3 has posted a transfer of height 1 that was ready, and
\* has passed over a ready transfer of height 0 to the same chain.
C27_Witness ==
  /\ SweepBlockDone
  /\ intake[1].isLastBlock
  /\ Len(pendingTransfers) = 2
  /\ \A i \in DOMAIN pendingTransfers :
       /\ pendingTransfers[i].isReady
       /\ pendingTransfers[i].targetChain = intake[1].chainSymbol
  /\ pendingTransfers[1].height = 1
  /\ pendingTransfers[2].height = 0
  /\ \E p \in posted : p.obj = pendingTransfers[1].transaction.obj
  /\ ~\E p \in posted : p.obj = pendingTransfers[2].transaction.obj

----------------------------------------------------------------------------
(* The registry: what an expiry leaves. *)

\* C28: after expireMultisigTransactions no entry of pendingTransfers is as
\* old as multisigExpiry, whatever authorings, authorings of an id again,
\* removals and expiries came before.
C28_ExpiryLeavesNoExpiredEntry ==
  [][ExpiryInterval =>
       \A i \in DOMAIN pendingTransfers' :
         pendingTransfers'[i].age < options_multisigExpiry]_vars

\* An expiry has removed the older of two entries and left the other, which is
\* one step of the clock old.
C28_Witness ==
  /\ lastExpired = 1
  /\ Len(pendingTransfers) = 1
  /\ pendingTransfers[1].transaction.obj = 1
  /\ pendingTransfers[1].age = ClockStep

----------------------------------------------------------------------------
(* The snapshots of the order book. *)

\* The block processBlock is working on.
BlockInProgress == driver.orderedBlockList[driver.index]

\* processBlock reaches saveSnapshot, or replaces this.lastSnapshot.
SnapshotTickStep ==
  \/ driver.pc = "transactions" /\ driver'.pc = "saveSnapshot"
  \/ lastSnapshot' # lastSnapshot

\* saveSnapshot(this.lastSnapshot) is over and this.lastSnapshot is replaced.
SnapshotSavedStep == driver.pc = "saveSnapshot" /\ driver' # driver

OnlyOnBaseBlocksAtFinality ==
  SnapshotTickStep =>
    /\ driver.pc \in {"transactions", "saveSnapshot"}
    /\ BlockInProgress.chainSymbol = baseChainSymbol
    /\ BlockInProgress.height % orderBookSnapshotFinality = 0

NewSnapshotIsCurrent ==
  SnapshotSavedStep =>
    lastSnapshot' = <<[orderBook |-> getSnapshot(orderBook),
                       chainHeights |-> latestChainHeights]>>

SavedSnapshotLagsByFinality ==
  SnapshotSavedStep =>
    lastSnapshot'[1].chainHeights[baseChainSymbol]
      - lastSnapshot[1].chainHeights[baseChainSymbol] = orderBookSnapshotFinality

\* The node restarted from its snapshot file while the base ledger is at the
\* height of the snapshot and the quote ledger four blocks past it.
BehindHeights == [c \in chainSymbols |-> IF c = baseChainSymbol THEN 2 ELSE 7]

InitNodeBehind ==
  /\ RegistryInit
  /\ requiredSignatureCount = [c \in chainSymbols |-> 2]
  /\ InterleaverInit
  /\ passiveMode \in BOOLEAN
  /\ dbHeight = BehindHeights
  /\ orderBook = setSnapshot(LoadedSnapshot.orderBook)
  /\ lastSnapshot = <<LoadedSnapshot>>
  /\ lastProcessedTimestamp =
       BlockTimestamp(baseChainSymbol, LoadedSnapshot.chainHeights[baseChainSymbol])
  /\ replicas = [r \in {1, 2} |-> NoReplica]
  /\ intake = <<>>

SpecNodeBehind == InitNodeBehind /\ [][NextNode]_vars

\* C29: a snapshot tick happens only in a base block whose height is a
\* multiple of orderBookSnapshotFinality; the snapshot saved is the one of the
\* tick before (or the one loaded), lastSnapshot is then the current book with
\* latestChainHeights, and so the saved snapshot is one finality interval
\* behind the snapshot in memory.
C29_SavedSnapshotLagsByOneInterval ==
  [][OnlyOnBaseBlocksAtFinality /\ NewSnapshotIsCurrent
       /\ SavedSnapshotLagsByFinality]_vars

SnapshotTickAsClaimed == [][OnlyOnBaseBlocksAtFinality /\ NewSnapshotIsCurrent]_vars

----------------------------------------------------------------------------
(* The scan of the dividend consumer on its own: the ledger, the job and    *)
(* the options dividendHeightInterval and readMaxBlocks are the input.      *)

MaxScanHeight == 5
MaxScanInterval == 3
MaxScanBatch == 2

\* fromHeight of a job, were it floored to 0.
ScanFromHeightFromZero(toHeight, dividendHeightInterval) ==
  IF toHeight - dividendHeightInterval < 0 THEN 0 ELSE toHeight - dividendHeightInterval

\* fromHeight of a job: toHeight - dividendHeightInterval, and 1 if that is
\* below 1.
ScanFromHeight(toHeight, dividendHeightInterval) ==
  IF toHeight - dividendHeightInterval < 1 THEN 1 ELSE toHeight - dividendHeightInterval

\* _getBlocks: the blocks after a timestamp, by timestamp, at most limit.
getBlocks(chain, maxHeight, fromTimestamp, limit) ==
  LET hs == {h \in 1..maxHeight : BlockTimestamp(chain, h) > fromTimestamp}
      n == IF Cardinality(hs) <= limit THEN Cardinality(hs) ELSE limit
      first == maxHeight - Cardinality(hs) + 1
  IN [i \in 1..n |-> Block(chain, first + i - 1)]

\* The loop of the consumer from latestBlock (height 0: no block): the blocks
\* it asks _getOutboundTransactions for, in that order, after those visited.
RECURSIVE ScanBlocks(_, _, _, _, _, _)
ScanBlocks(chain, maxHeight, latestHeight, toHeight, readMaxBlocks, visited) ==
  IF latestHeight = 0 THEN visited
  ELSE LET timestampedBlockList ==
             getBlocks(chain, maxHeight, BlockTimestamp(chain, latestHeight), readMaxBlocks)
           blocksToProcess ==
             SelectSeq(timestampedBlockList, LAMBDA block : block.height <= toHeight)
       IN ScanBlocks(chain, maxHeight,
                     IF blocksToProcess = <<>> THEN 0
                     ELSE blocksToProcess[Len(blocksToProcess)].height,
                     toHeight, readMaxBlocks, visited \o blocksToProcess)

RECURSIVE ContributionsOfScan(_, _, _)
ContributionsOfScan(contributionData, chain, blocks) ==
  IF blocks = <<>> THEN contributionData
  ELSE ContributionsOfScan(
         ContributionsOfTransactions(contributionData, chain,
                                     OutboundTransactions(chain, Head(blocks).height)),
         chain, Tail(blocks))

\* One job of the consumer up to dividendFunction: _getBlockAtHeight gives no
\* block above the ledger.
ScanJob(job) ==
  LET fromHeight == ScanFromHeight(job.toHeight, job.dividendHeightInterval)
      visited == ScanBlocks(job.chainSymbol, job.maxHeight,
                            IF fromHeight > job.maxHeight THEN 0 ELSE fromHeight,
                            job.toHeight, job.readMaxBlocks, <<>>)
  IN [visited |-> [i \in DOMAIN visited |-> visited[i].height],
      contributionData |-> ContributionsOfScan(<<>>, job.chainSymbol, visited)]

ScanChoices ==
  [chainSymbol : chainSymbols,
   maxHeight : 1..MaxScanHeight,
   toHeight : 1..MaxScanHeight,
   dividendHeightInterval : 1..MaxScanInterval,
   readMaxBlocks : 1..MaxScanBatch]

InitScan ==
  /\ RegistryInit
  /\ requiredSignatureCount = [c \in chainSymbols |-> 2]
  /\ InterleaverInit
  /\ passiveMode = FALSE
  /\ orderBook = <<>>
  /\ lastSnapshot = <<>>
  /\ dbHeight = StartHeights
  /\ lastProcessedTimestamp = Unset
  /\ replicas = [r \in {1, 2} |-> NoReplica]
  /\ \E job \in ScanChoices : intake = <<job>>

ScanLedger ==
  /\ Len(intake) = 1
  /\ intake' = Append(intake, ScanJob(intake[1]))
  /\ UNCHANGED <<registryVars, interleaverVars, replicas>>

SpecScan == InitScan /\ [][ScanLedger]_vars

\* The heights above a and up to b, in order.
HeightsFromTo(a, b) == [i \in 1..(IF b > a THEN b - a ELSE 0) |-> a + i]

\* C30: the scan of a job ends, and the blocks it reads are the blocks of the
\* ledger with a height above fromHeight and up to toHeight, each once, where
\* fromHeight is toHeight - dividendHeightInterval or 1 if that is less; of
\* the transfers in them only those with a memo of a trade (t1, t2) give a
\* contribution: the refund r1 in base block 4 gives none, the payout t1 in
\* quote block 4 gives one for each of its two signers.
C30_ScanVisitsRangeOnce ==
  Len(intake) = 2 =>
    \E job \in {intake[1]} :
      \E fromHeight \in {IF job.toHeight - job.dividendHeightInterval > 1
                         THEN job.toHeight - job.dividendHeightInterval ELSE 1} :
        /\ intake[2].visited = HeightsFromTo(fromHeight, Min(job.toHeight, job.maxHeight))
        /\ \E isRead \in {\E i \in DOMAIN intake[2].visited : intake[2].visited[i] = 4} :
             IF job.chainSymbol = quoteChainSymbol /\ isRead
             THEN /\ Len(intake[2].contributionData) = 2
                  /\ \A i \in DOMAIN intake[2].contributionData :
                       intake[2].contributionData[i].amount = 100
             ELSE intake[2].contributionData = <<>>

\* A job for height 5 with an interval of 3 on the quote chain, read two
\* blocks at a time from a ledger of 5 blocks: the blocks 3, 4 and 5 are
\* read, and the two signers of the payout in block 4 are credited.
C30_Witness ==
  /\ Len(intake) = 2
  /\ intake[1].chainSymbol = quoteChainSymbol
  /\ intake[1].readMaxBlocks = 2
  /\ intake[2].visited = <<3, 4, 5>>
  /\ Len(intake[2].contributionData) = 2

----------------------------------------------------------------------------
(* The interleaver without faults: which blocks the cursor passes. *)

NoFaults == faults.errors = 0 /\ faults.forks = 0

\* The blocks of the list of the tick whose processBlock has returned once
\* the step is over: those up to driver.index.
ProcessedInTick(chainSymbol) ==
  {driver.orderedBlockList[i].height :
     i \in {j \in 1..driver.index :
              driver.orderedBlockList[j].chainSymbol = chainSymbol}}

\* C31: without forks and errors, the cursor lastProcessedTimestamp never
\* moves to or past the timestamp of a block of a ledger that has not been
\* handed to processBlock (so every block that reaches the safe height is
\* processed in the end): when a tick moves the cursor, every block of either
\* ledger from the first of its chain in the list of the tick up to the new
\* cursor is at or below a block of its chain that the tick has processed.
C31_CursorPassesNoUnprocessedBlock ==
  [][(/\ NoFaults
      /\ driver.pc \in {"transactions", "saveSnapshot"}
      /\ lastProcessedTimestamp' # lastProcessedTimestamp) =>
       \A c \in chainSymbols :
         \A h \in 1..dbHeight[c] :
           (/\ BlockTimestamp(c, h) <= lastProcessedTimestamp'
            /\ \E i \in DOMAIN driver.orderedBlockList :
                 /\ driver.orderedBlockList[i].chainSymbol = c
                 /\ driver.orderedBlockList[i].height <= h) =>
             \E g \in ProcessedInTick(c) : h <= g]_vars

\* A step of the loop of processBlockchains that gives a block to
\* processBlock: the first block of a list, or the next after a block that
\* has returned.
StartsBlock ==
  /\ driver'.pc = "transactions"
  /\ driver.pc = "fetch" \/ driver'.index # driver.index

\* C32: absent fork recovery, a block whose processBlock has returned is
\* never given to processBlock again, also after a tick that an error on a
\* later block of its list has ended.
C32_NoCompletedBlockStartedAgain ==
  [][(faults.forks = 0 /\ StartsBlock) =>
       <<driver'.orderedBlockList[driver'.index].chainSymbol,
         driver'.orderedBlockList[driver'.index].height>> \notin processed]_vars

\* A node that starts without a snapshot file when the base ledger holds one
\* block and the quote ledger none: the snapshot of its first recovery is one
\* that it has taken itself.
EarlyHeights == [c \in chainSymbols |-> IF c = baseChainSymbol THEN 1 ELSE 0]

InitNodeEarly ==
  /\ RegistryInit
  /\ requiredSignatureCount = [c \in chainSymbols |-> 2]
  /\ InterleaverInit
  /\ passiveMode \in BOOLEAN
  /\ dbHeight = EarlyHeights
  /\ orderBook = <<>>
  /\ lastSnapshot = <<>>
  /\ lastProcessedTimestamp = Unset
  /\ replicas = [r \in {1, 2} |-> NoReplica]
  /\ intake = <<>>

SpecNodeEarly == InitNodeEarly /\ [][NextNode]_vars

\* The blocks that were processed after the capture of this.lastSnapshot:
\* those above the heights that the snapshot records.
ProcessedAfterSnapshot ==
  {b \in processed : b[2] > lastSnapshot[1].chainHeights[b[1]]}

\* C33: after a fork recovery with a snapshot, the replay takes exactly the
\* blocks that were processed after the capture of the snapshot: the heights
\* above which the first tick after the recovery fetches are not below those
\* of the snapshot, and every block processed after the capture lies above
\* them, the quote block with the timestamp of the snapshot's base block
\* included.
C33_ReplayTakesBlocksAfterSnapshot ==
  (recovered /\ driver.pc = "fetch" /\ lastSnapshot # <<>>) =>
    /\ \A c \in chainSymbols :
         latestChainHeights[c] >= lastSnapshot[1].chainHeights[c]
    /\ \A b \in ProcessedAfterSnapshot : b[2] > latestChainHeights[b[1]]

\* C34: a fork recovery leaves the interleaver able to continue, also when
\* there is no snapshot: from the recovery until the next block is started,
\* lastProcessedTimestamp holds a timestamp and startProcessingBlockchains
\* has not ended.
C34_RecoveryLeavesLoopRunning ==
  recovered => (lastProcessedTimestamp # Unset /\ driver.pc # "dead")

\* C35: a delayed task acts only on an entry that is still in the registry:
\* the handler's task posts after wait(txnSubmitDelay) only a transaction
\* object that pendingTransfers holds, and the task of
\* execMultisigTransaction broadcasts after wait(sigBroadcastDelay) only the
\* signature of a transaction id that pendingTransfers holds.
C35_DelayedTaskActsOnRegisteredEntry ==
  [][\A timer \in timers :
       /\ SubmitTimerFires(timer) =>
            \E i \in DOMAIN pendingTransfers :
              pendingTransfers[i].transaction.obj = timer.transaction.obj
       /\ BroadcastTimerFires(timer) =>
            MapHas(pendingTransfers, timer.transactionId)]_vars

\* C36: after the fork recovery has cleared pendingTransfers, nothing that
\* derives from a block processed before the clear is added to it: until the
\* next block is started, no step puts a transaction object into the registry.
C36_NothingAuthoredFromBlocksBeforeClear ==
  [][(recovered /\ recovered') =>
       \A i \in DOMAIN pendingTransfers' :
         \E j \in DOMAIN pendingTransfers :
           pendingTransfers[j].transaction.obj = pendingTransfers'[i].transaction.obj]_vars

\* C37: an entry of the registry whose signature list has reached
\* requiredSignatureCount of its target chain has isReady set (and, being
\* ready, is posted by the handler's task or by the sweep), also when the
\* signature of the node alone is the quorum.
C37_QuorumSetsIsReady ==
  \A i \in DOMAIN pendingTransfers :
    Len(pendingTransfers[i].transaction.signatures)
        >= requiredSignatureCount[pendingTransfers[i].targetChain]
      => pendingTransfers[i].isReady

\* Signatures of the payout as peers may send them: by the node's key and by
\* another member of the wallet, spelled with lower-case or with upper-case hex digits. Both
\* spellings are the same bytes to verifyData and different strings to
\* processedSignatureSet.
SpelledSignatureData ==
  {[transactionId |-> PayoutId, signature |-> [key |-> k, txn |-> PayoutId, enc |-> e],
    publicKey |-> k] : k \in {NodeKey, "k2"}, e \in {"lc", "uc"}}

NextQuorum ==
  \/ \E signatureData \in SpelledSignatureData : NetworkEvent(signatureData)
  \/ \E timer \in timers : SubmitTimerFires(timer)
  \/ \E timer \in timers : BroadcastTimerFires(timer)
  \/ ExpiryInterval
  \/ TimePasses
  \/ \E chainSymbol \in chainSymbols, isLastBlock \in BOOLEAN,
        outboundIds \in SUBSET {PayoutId}, authored \in AuthoredChoices :
       ProcessBlockRegistry(chainSymbol, isLastBlock, outboundIds, authored, MaxAuthorings,
                            MaxHeight)

\* The signature coordinator with the signatures of the members in both
\* spellings.
SpecQuorum == Init /\ [][NextQuorum]_vars

\* The members whose signatures an entry of the registry holds.
SignersOf(transfer) ==
  {transfer.transaction.signatures[i].key : i \in DOMAIN transfer.transaction.signatures}

\* C38: an entry that is ready holds signatures of at least
\* requiredSignatureCount distinct members of the wallet of its target chain:
\* every signature of its list is by a member, the node's own included, and
\* no member has two signatures in the list.
C38_ReadyHasQuorumOfDistinctMembers ==
  \A i \in DOMAIN pendingTransfers :
    pendingTransfers[i].isReady =>
      /\ SignersOf(pendingTransfers[i]) \subseteq members(pendingTransfers[i].targetChain)
      /\ Cardinality(SignersOf(pendingTransfers[i]))
           = Len(pendingTransfers[i].transaction.signatures)
      /\ Cardinality(SignersOf(pendingTransfers[i]))
           >= requiredSignatureCount[pendingTransfers[i].targetChain]

\* C39: every entry of the registry records the height of its target chain
\* at which it was created, a defined integer, whatever kind of transaction
\* it holds, so that the rebroadcast sweep can reach it.
C39_EveryEntryRecordsItsHeight ==
  \A i \in DOMAIN pendingTransfers :
    /\ pendingTransfers[i].height # NoHeight
    /\ pendingTransfers[i].height \in Nat

\* processBlock of the block in progress runs from the arrival of its
\* transactions to its end or to its wait for saveSnapshot.
TransactionsStep ==
  driver.pc = "transactions" /\ driver' # driver /\ faults' = faults

\* The fork recovery restores the book.
RecoveryStep == driver.pc = "idle" /\ isInForkRecovery /\ ~isInForkRecovery'

\* The book after the mutations of a block in their order: expiry, closes,
\* matches.
BookAfterPhases(block) ==
  LET orders == ParsedOrders(orderBook, block.chainSymbol, block.height,
                             InboundTransactions(block.chainSymbol, block.height))
  IN MatchAll(CloseOrders(ExpireOrders(NodeState, block),
                          OrdersOfType(orders, {"close"}), block.timestamp),
              OrdersOfType(orders, {"limit", "market"}), latestChainHeights,
              block.timestamp).orderBook

\* The refunds of closed orders (r3) that a step authors, by the id of the
\* order closed.
ClosesRefundedInStep ==
  {pendingTransfers'[i].transaction.id[5][2] :
     i \in {j \in DOMAIN pendingTransfers' :
              /\ pendingTransfers'[j].transaction.obj >= nextObj
              /\ pendingTransfers'[j].transaction.id[5][1] = "r3"}}

\* C40: within one invocation of processBlock the mutations of the book are
\* applied in the order expiry, closes, matches, all before the snapshot of
\* the block is captured and before the next block is started. The book
\* changes only in the step of the block in progress that follows the arrival
\* of its transactions (or in a recovery); in that step it becomes the book
\* after the three phases in their order, an order that the block expires is
\* not closed by a close of the same block, and what a snapshot tick captures
\* is the book after the phases. No completion of a lookup, of a dividend job
\* or of saveSnapshot changes the book afterwards.
C40_BookMutationsInOrderBeforeSnapshot ==
  [][/\ orderBook' # orderBook => (TransactionsStep \/ RecoveryStep)
     /\ TransactionsStep =>
          /\ orderBook' = BookAfterPhases(BlockInProgress)
          /\ \A i \in DOMAIN orderBook :
               (/\ orderBook[i].side = SideOf(BlockInProgress.chainSymbol)
                /\ orderBook[i].expiryHeight <= BlockInProgress.height)
                 => orderBook[i].id \notin ClosesRefundedInStep
          /\ driver'.pc = "saveSnapshot" =>
               driver'.currentOrderBook = getSnapshot(orderBook')
          /\ (driver'.pc # "saveSnapshot" /\ IsSnapshotTick(BlockInProgress)) =>
               lastSnapshot'[1].orderBook = getSnapshot(orderBook')
     /\ SnapshotSavedStep =>
          lastSnapshot'[1].orderBook = getSnapshot(orderBook')]_vars

\* Base block 4 has run to its end: its close of the bid a3 found the order
\* expired by the same block, and the refund authored for a3 is that of the
\* expiry.
C40_Witness ==
  /\ lastStarted.chainSymbol = baseChainSymbol
  /\ lastStarted.height = 4
  /\ unhandled = 1
  /\ \E i \in DOMAIN pendingTransfers :
       /\ pendingTransfers[i].transaction.id[5][1] = "r2"
       /\ pendingTransfers[i].transaction.id[5][2] = "a3"
  /\ \A i \in DOMAIN orderBook : orderBook[i].id # "a3"

====
